---- MODULE Spec2Model ----
(***************************************************************************)
(* Location normalizer, location scoring and job matcher of Resumi.        *)
(* Strings are TLA+ strings, processed character by character.             *)
(* Scores are Python floats, modelled as binary64 values.                 *)
(***************************************************************************)
EXTENDS FiniteSets, Integers, Naturals, Sequences, TLC

\* Optional[str]: None is <<>>, a string s is <<s>>
None == <<>>

Some(s) == <<s>>

\* the string held by a non-None optional
Val(o) == o[1]

\* placeholder location of a job that was not normalized
NoOut0 == [city |-> None, country |-> None, location_type |-> "<pending>", raw |-> ""]

(*------------------------------ str helpers ------------------------------*)

\* (upper, lower) pairs of str.lower() on Latin-1: A-Z and U+00C0..U+00DE except U+00D7
CasePairs ==
  {<<"A", "a">>, <<"B", "b">>, <<"C", "c">>, <<"D", "d">>, <<"E", "e">>, <<"F", "f">>, <<"G", "g">>, <<"H", "h">>,
   <<"I", "i">>, <<"J", "j">>, <<"K", "k">>, <<"L", "l">>, <<"M", "m">>, <<"N", "n">>, <<"O", "o">>, <<"P", "p">>,
   <<"Q", "q">>, <<"R", "r">>, <<"S", "s">>, <<"T", "t">>, <<"U", "u">>, <<"V", "v">>, <<"W", "w">>, <<"X", "x">>,
   <<"Y", "y">>, <<"Z", "z">>, <<"À", "à">>, <<"Á", "á">>, <<"Â", "â">>, <<"Ã", "ã">>, <<"Ä", "ä">>, <<"Å", "å">>,
   <<"Æ", "æ">>, <<"Ç", "ç">>, <<"È", "è">>, <<"É", "é">>, <<"Ê", "ê">>, <<"Ë", "ë">>, <<"Ì", "ì">>, <<"Í", "í">>,
   <<"Î", "î">>, <<"Ï", "ï">>, <<"Ð", "ð">>, <<"Ñ", "ñ">>, <<"Ò", "ò">>, <<"Ó", "ó">>, <<"Ô", "ô">>, <<"Õ", "õ">>,
   <<"Ö", "ö">>, <<"Ø", "ø">>, <<"Ù", "ù">>, <<"Ú", "ú">>, <<"Û", "û">>, <<"Ü", "ü">>, <<"Ý", "ý">>, <<"Þ", "þ">>}

UpperChars == {p[1] : p \in CasePairs}

\* letters str.upper() changes: the lower halves of CasePairs and the three without a Latin-1 partner
LowerChars == {p[2] : p \in CasePairs} \cup {"µ", "ß", "ÿ"}

\* letters with the Unicode Cased property (ª and º are lower-case but have no upper case)
CasedChars == UpperChars \cup LowerChars \cup {"ª", "º"}

CharLower(c) == IF c \in UpperChars THEN (CHOOSE p \in CasePairs : p[1] = c)[2] ELSE c

\* str.upper() of one character (may be two characters long); the upper cases of
\* µ and ÿ lie outside Latin-1, which TLA+ string literals cannot hold, and are
\* written as the names of their code points
CharUpper(c) ==
  IF c = "µ" THEN "<U+039C>" ELSE IF c = "ß" THEN "SS" ELSE IF c = "ÿ" THEN "<U+0178>"
  ELSE IF c \in LowerChars THEN (CHOOSE p \in CasePairs : p[2] = c)[1] ELSE c

\* title-case mapping of one character
CharTitle(c) == IF c = "ß" THEN "Ss" ELSE CharUpper(c)

StrHead(s) == SubSeq(s, 1, 1)

StrRest(s) == SubSeq(s, 2, Len(s))

\* str.lower()
RECURSIVE StrLower(_)
StrLower(s) ==
  IF Len(s) <= 1 THEN (IF s = "" THEN "" ELSE CharLower(s))
  ELSE StrLower(SubSeq(s, 1, Len(s) \div 2)) \o StrLower(SubSeq(s, Len(s) \div 2 + 1, Len(s)))

\* str.title(): each character is lower-cased after a cased character and
\* title-cased otherwise
RECURSIVE TitleFrom(_, _)
TitleFrom(s, prevCased) ==
  IF s = "" THEN ""
  ELSE LET c == StrHead(s)
       IN (IF prevCased THEN CharLower(c) ELSE CharTitle(c)) \o TitleFrom(StrRest(s), c \in CasedChars)

StrTitle(s) == TitleFrom(s, FALSE)

\* characters of Latin-1 for which str.isspace() holds (str.strip(), regex \s)
Whitespace == {"\t", "\n", "", "\f", "\r", "", "", "", "", " ", "", " "}

RECURSIVE LStrip(_)
LStrip(s) == IF s # "" /\ StrHead(s) \in Whitespace THEN LStrip(StrRest(s)) ELSE s

RECURSIVE RStrip(_)
RStrip(s) == IF s # "" /\ SubSeq(s, Len(s), Len(s)) \in Whitespace
             THEN RStrip(SubSeq(s, 1, Len(s) - 1)) ELSE s

\* str.strip()
StrStrip(s) == RStrip(LStrip(s))

\* substring test `k in s`
StrContains(s, k) == \E i \in 0..(Len(s) - Len(k)) : SubSeq(s, i + 1, i + Len(k)) = k

\* str.split(',')
RECURSIVE SplitComma(_)
SplitComma(s) ==
  IF \E i \in 1..Len(s) : SubSeq(s, i, i) = ","
  THEN LET i == CHOOSE j \in 1..Len(s) : SubSeq(s, j, j) = ","
                                          /\ \A k \in 1..(j - 1) : SubSeq(s, k, k) # ","
       IN <<SubSeq(s, 1, i - 1)>> \o SplitComma(SubSeq(s, i + 1, Len(s)))
  ELSE <<s>>

\* dict.get(k, default) on a dict given as a set of <<key, value>> pairs
DictGet(d, k, default) ==
  IF \E p \in d : p[1] = k THEN (CHOOSE p \in d : p[1] = k)[2] ELSE default

(*------------------------- location_logic/normalizer ---------------------*)

COUNTRY_MAPPINGS ==
  {<<"usa", "USA">>, <<"us", "USA">>, <<"united states", "USA">>,
   <<"canada", "Canada">>, <<"ca", "Canada">>,
   <<"uk", "United Kingdom">>, <<"gb", "United Kingdom">>,
   <<"united kingdom", "United Kingdom">>, <<"germany", "Germany">>,
   <<"france", "France">>, <<"india", "India">>, <<"in", "India">>,
   <<"uae", "UAE">>, <<"united arab emirates", "UAE">>, <<"dubai", "UAE">>,
   <<"singapore", "Singapore">>, <<"sg", "Singapore">>,
   <<"australia", "Australia">>, <<"au", "Australia">>}

CITY_ALIASES ==
  {<<"bengaluru", "Bangalore">>, <<"bangalore", "Bangalore">>,
   <<"bombay", "Mumbai">>, <<"mumbai", "Mumbai">>,
   <<"new delhi", "Delhi">>, <<"delhi", "Delhi">>,
   <<"gurugram", "Gurgaon">>, <<"gurgaon", "Gurgaon">>}

REMOTE_KEYWORDS == <<"remote", "anywhere", "worldwide", "global", "work from home", "wfh">>

HYBRID_KEYWORDS == <<"hybrid", "flexible", "remote-friendly">>

RECURSIVE JoinWith(_, _)
\* sep.join(q)
JoinWith(sep, q) ==
  IF q = <<>> THEN "" ELSE IF Len(q) = 1 THEN q[1] ELSE q[1] \o sep \o JoinWith(sep, Tail(q))

\* set of the elements of a sequence
Range(q) == {q[i] : i \in DOMAIN q}

AnyKeyword(s, kws) == \E i \in 1..Len(kws) : StrContains(s, kws[i])

NormalizeCountry(country_str) ==
  DictGet(COUNTRY_MAPPINGS, StrStrip(StrLower(country_str)), StrTitle(country_str))

\* country taken from the second part instead of the last one
ParseCityCountrySecond(location_str) ==
  LET raw == SplitComma(location_str)
      parts == [i \in 1..Len(raw) |-> StrStrip(raw[i])]
  IN IF Len(parts) = 1
     THEN <<Some(DictGet(CITY_ALIASES, StrLower(parts[1]), parts[1])), None>>
     ELSE <<Some(DictGet(CITY_ALIASES, StrLower(parts[1]), parts[1])), Some(NormalizeCountry(parts[2]))>>

\* _parse_city_country: <<city, country>>
ParseCityCountry(location_str) ==
  LET raw == SplitComma(location_str)
      parts == [i \in 1..Len(raw) |-> StrStrip(raw[i])]
  IN IF Len(parts) = 0 THEN <<None, None>>
     ELSE IF Len(parts) = 1
     THEN <<Some(DictGet(CITY_ALIASES, StrLower(parts[1]), parts[1])), None>>
     ELSE IF Len(parts) = 2
     THEN <<Some(DictGet(CITY_ALIASES, StrLower(parts[1]), parts[1])), Some(NormalizeCountry(parts[2]))>>
     ELSE <<Some(DictGet(CITY_ALIASES, StrLower(parts[1]), parts[1])), Some(NormalizeCountry(parts[Len(parts)]))>>

\* hybrid keywords tested before remote keywords
NormalizeLocationHybridFirst(location_str) ==
  IF location_str = None \/ location_str = Some("")
  THEN [city |-> None, country |-> None, location_type |-> "onsite", raw |-> "Not specified"]
  ELSE LET location_lower == StrStrip(StrLower(Val(location_str)))
           cc == ParseCityCountry(Val(location_str))
       IN IF AnyKeyword(location_lower, HYBRID_KEYWORDS)
          THEN [city |-> cc[1], country |-> cc[2], location_type |-> "hybrid", raw |-> Val(location_str)]
          ELSE IF AnyKeyword(location_lower, REMOTE_KEYWORDS)
          THEN [city |-> None, country |-> None, location_type |-> "remote", raw |-> Val(location_str)]
          ELSE [city |-> cc[1], country |-> cc[2], location_type |-> "onsite", raw |-> Val(location_str)]

NormalizeLocation(location_str) ==
  IF location_str = None \/ location_str = Some("")
  THEN [city |-> None, country |-> None, location_type |-> "onsite", raw |-> "Not specified"]
  ELSE LET location_lower == StrStrip(StrLower(Val(location_str)))
       IN IF AnyKeyword(location_lower, REMOTE_KEYWORDS)
          THEN [city |-> None, country |-> None, location_type |-> "remote", raw |-> Val(location_str)]
          ELSE LET cc == ParseCityCountry(Val(location_str))
               IN [city |-> cc[1], country |-> cc[2],
                   location_type |-> IF AnyKeyword(location_lower, HYBRID_KEYWORDS)
                                     THEN "hybrid" ELSE "onsite",
                   raw |-> Val(location_str)]

(*------------------------ Python float (binary64) ------------------------*)

\* natural numbers of any size, as base-2^15 digits, least significant first, with no
\* trailing zero digit (zero is <<>>)
LimbBase == 32768

LimbBits == 15

RECURSIVE BigFromNat(_)
BigFromNat(n) == IF n = 0 THEN <<>> ELSE <<n % LimbBase>> \o BigFromNat(n \div LimbBase)

RECURSIVE BigTrim(_)
BigTrim(a) == IF a # <<>> /\ a[Len(a)] = 0 THEN BigTrim(SubSeq(a, 1, Len(a) - 1)) ELSE a

BigLimb(a, i) == IF i <= Len(a) THEN a[i] ELSE 0

RECURSIVE BigAddFrom(_, _, _, _)
BigAddFrom(a, b, i, carry) ==
  IF i > Len(a) /\ i > Len(b) THEN (IF carry = 0 THEN <<>> ELSE <<carry>>)
  ELSE LET t == BigLimb(a, i) + BigLimb(b, i) + carry
       IN <<t % LimbBase>> \o BigAddFrom(a, b, i + 1, t \div LimbBase)

BigAdd(a, b) == BigTrim(BigAddFrom(a, b, 1, 0))

RECURSIVE BigMulSmallFrom(_, _, _, _)
BigMulSmallFrom(a, k, i, carry) ==
  IF i > Len(a) THEN (IF carry = 0 THEN <<>> ELSE BigFromNat(carry))
  ELSE LET t == a[i] * k + carry
       IN <<t % LimbBase>> \o BigMulSmallFrom(a, k, i + 1, t \div LimbBase)

\* a * k for 0 <= k < 2^15
BigMulSmall(a, k) == IF k = 0 THEN <<>> ELSE BigTrim(BigMulSmallFrom(a, k, 1, 0))

RECURSIVE BigMul(_, _)
BigMul(a, b) ==
  IF b = <<>> THEN <<>>
  ELSE LET rest == BigMul(a, Tail(b))
       IN BigAdd(BigMulSmall(a, b[1]), IF rest = <<>> THEN <<>> ELSE <<0>> \o rest)

\* a * 2^s
BigShl(a, s) ==
  IF a = <<>> THEN <<>>
  ELSE [i \in 1..(s \div LimbBits) |-> 0] \o BigMulSmall(a, 2^(s % LimbBits))

RECURSIVE BigDivSmallFrom(_, _, _, _, _)
BigDivSmallFrom(a, d, i, q, r) ==
  IF i = 0 THEN <<BigTrim(q), r>>
  ELSE LET t == r * LimbBase + a[i]
       IN BigDivSmallFrom(a, d, i - 1, <<t \div d>> \o q, t % d)

\* <<a \div d, a % d>> for 0 < d <= 2^15
BigDivSmall(a, d) == BigDivSmallFrom(a, d, Len(a), <<>>, 0)

\* a \div 2^s
BigShr(a, s) ==
  LET b == IF s \div LimbBits >= Len(a) THEN <<>> ELSE SubSeq(a, s \div LimbBits + 1, Len(a))
  IN BigDivSmall(b, 2^(s % LimbBits))[1]

\* a % 2^s
BigLow(a, s) ==
  LET k == s \div LimbBits
      low == SubSeq(a, 1, IF k <= Len(a) THEN k ELSE Len(a))
  IN BigTrim(low \o <<BigLimb(a, k + 1) % 2^(s % LimbBits)>>)

RECURSIVE BitLenNat(_)
BitLenNat(n) == IF n = 0 THEN 0 ELSE 1 + BitLenNat(n \div 2)

BigBitLen(a) == IF a = <<>> THEN 0 ELSE LimbBits * (Len(a) - 1) + BitLenNat(a[Len(a)])

RECURSIVE BigCmpFrom(_, _, _)
BigCmpFrom(a, b, i) ==
  IF i = 0 THEN 0 ELSE IF a[i] < b[i] THEN -1 ELSE IF a[i] > b[i] THEN 1 ELSE BigCmpFrom(a, b, i - 1)

\* -1, 0 or 1 as a < b, a = b, a > b
BigCmp(a, b) ==
  IF Len(a) < Len(b) THEN -1 ELSE IF Len(a) > Len(b) THEN 1 ELSE BigCmpFrom(a, b, Len(a))

BigOdd(a) == a # <<>> /\ a[1] % 2 = 1

\* a non-negative double m * 2^e, with m of exactly 53 bits (zero has m = <<>>, e = 0)
FZero == [m |-> <<>>, e |-> 0]

\* n * 2^e rounded to 53 significant bits, ties to even (IEEE 754 round-to-nearest)
FRound(n, e) ==
  LET L == BigBitLen(n)
  IN IF n = <<>> THEN FZero
     ELSE IF L <= 53 THEN [m |-> BigShl(n, 53 - L), e |-> e - (53 - L)]
     ELSE LET s == L - 53
              q == BigShr(n, s)
              c == BigCmp(BigLow(n, s), BigShl(<<1>>, s - 1))
              q1 == IF c > 0 \/ (c = 0 /\ BigOdd(q)) THEN BigAdd(q, <<1>>) ELSE q
          IN IF BigBitLen(q1) > 53 THEN [m |-> BigShr(q1, 1), e |-> e + s + 1]
             ELSE [m |-> q1, e |-> e + s]

\* p / q (Python true division of ints, correctly rounded) for p >= 0, 0 < q <= 2^15;
\* a float literal such as 0.7 is the correctly rounded 7 / 10
FDivInt(p, q) ==
  IF p = 0 THEN FZero
  ELSE LET qr == BigDivSmall(BigShl(BigFromNat(p), 72), q)
           sticky == IF qr[2] = 0 THEN <<>> ELSE <<1>>
       IN FRound(BigAdd(BigShl(qr[1], 1), sticky), -73)

\* x * y
FMul(x, y) == IF x.m = <<>> \/ y.m = <<>> THEN FZero ELSE FRound(BigMul(x.m, y.m), x.e + y.e)

\* x + y
FAdd(x, y) ==
  IF x.m = <<>> THEN y ELSE IF y.m = <<>> THEN x
  ELSE LET e == IF x.e <= y.e THEN x.e ELSE y.e
       IN FRound(BigAdd(BigShl(x.m, x.e - e), BigShl(y.m, y.e - e)), e)

\* -1, 0 or 1 as x < y, x = y, x > y
FCmp(x, y) ==
  IF x.m = <<>> /\ y.m = <<>> THEN 0
  ELSE IF x.m = <<>> THEN -1 ELSE IF y.m = <<>> THEN 1
  ELSE IF x.e < y.e THEN -1 ELSE IF x.e > y.e THEN 1
  ELSE BigCmp(x.m, y.m)

FLe(x, y) == FCmp(x, y) <= 0

FLt(x, y) == FCmp(x, y) < 0

FGe(x, y) == FCmp(x, y) >= 0

FGt(x, y) == FCmp(x, y) > 0

\* min(x, y) / max(x, y) of Python: the first argument unless the second is strictly better
FMin(x, y) == IF FLt(y, x) THEN y ELSE x

FMax(x, y) == IF FGt(y, x) THEN y ELSE x


(*------------------------- score_location_match --------------------------*)

\* the float literals 0.0, 0.1, ..., 1.0
DecTable == [n \in 0..10 |-> FDivInt(n, 10)]

\* the float literal n / 10
Dec(n) == DecTable[n]

Max2(a, b) == IF a >= b THEN a ELSE b

\* Python truthiness of an optional string
Truthy(x) == x # None /\ x # Some("")

CityMatch(job_location, pref) ==
  Truthy(job_location.city) /\ Truthy(pref.city)
  /\ StrLower(Val(job_location.city)) = StrLower(Val(pref.city))

CountryMatch(job_location, pref) ==
  Truthy(job_location.country) /\ Truthy(pref.country)
  /\ StrLower(Val(job_location.country)) = StrLower(Val(pref.country))

\* the `for pref in normalized_prefs` loop, from index i on
RECURSIVE BestFrom(_, _, _, _)
BestFrom(job_location, normalized_prefs, i, best_score) ==
  IF i > Len(normalized_prefs) THEN best_score
  ELSE LET pref == normalized_prefs[i]
           next == IF CityMatch(job_location, pref) THEN FMax(best_score, Dec(10))
                   ELSE IF CountryMatch(job_location, pref) THEN FMax(best_score, Dec(7))
                   ELSE best_score
       IN BestFrom(job_location, normalized_prefs, i + 1, next)

\* same-country scan of the relocation branch (only reached with best_score = 0.0)
RelocationScore(job_location, normalized_prefs) ==
  IF Truthy(job_location.country)
     /\ \E i \in 1..Len(normalized_prefs) : CountryMatch(job_location, normalized_prefs[i])
  THEN Dec(5) ELSE FZero

NoMatchScore(job_location, normalized_prefs, open_to_relocation, open_to_international) ==
  IF open_to_relocation
  THEN LET r == RelocationScore(job_location, normalized_prefs)
       IN IF r = FZero /\ open_to_international THEN Dec(4)
          ELSE IF r = FZero THEN Dec(1)
          ELSE r
  ELSE FZero

\* city match scored 0.9 instead of 1.0
ScoreLocationMatchCity09(job_location, preferred_locations, open_to_relocation, open_to_international, remote_only) ==
  IF job_location.location_type = "remote" THEN Dec(10)
  ELSE IF remote_only THEN Dec(2)
  ELSE IF preferred_locations = <<>> THEN Dec(5)
  ELSE LET normalized_prefs == [i \in 1..Len(preferred_locations) |-> NormalizeLocation(Some(preferred_locations[i]))]
           b == BestFrom(job_location, normalized_prefs, 1, FZero)
           best == IF b = Dec(10) THEN Dec(9) ELSE b
       IN IF best = FZero THEN NoMatchScore(job_location, normalized_prefs, open_to_relocation, open_to_international)
          ELSE best

\* remote jobs scored 0.9 instead of 1.0
ScoreLocationMatchRemote09(job_location, preferred_locations, open_to_relocation, open_to_international, remote_only) ==
  IF job_location.location_type = "remote" THEN Dec(9)
  ELSE IF remote_only THEN Dec(2)
  ELSE IF preferred_locations = <<>> THEN Dec(5)
  ELSE LET normalized_prefs == [i \in 1..Len(preferred_locations) |-> NormalizeLocation(Some(preferred_locations[i]))]
           best == BestFrom(job_location, normalized_prefs, 1, FZero)
       IN IF best = FZero THEN NoMatchScore(job_location, normalized_prefs, open_to_relocation, open_to_international)
          ELSE best

\* empty-preferences check placed before the remote_only check
ScoreLocationMatchEmptyFirst(job_location, preferred_locations, open_to_relocation, open_to_international, remote_only) ==
  IF job_location.location_type = "remote" THEN Dec(10)
  ELSE IF preferred_locations = <<>> THEN Dec(5)
  ELSE IF remote_only THEN Dec(2)
  ELSE LET normalized_prefs == [i \in 1..Len(preferred_locations) |-> NormalizeLocation(Some(preferred_locations[i]))]
           best == BestFrom(job_location, normalized_prefs, 1, FZero)
       IN IF best = FZero THEN NoMatchScore(job_location, normalized_prefs, open_to_relocation, open_to_international)
          ELSE best

\* loop assigns the latest match instead of keeping the maximum
RECURSIVE LastFrom(_, _, _, _)
LastFrom(job_location, normalized_prefs, i, best_score) ==
  IF i > Len(normalized_prefs) THEN best_score
  ELSE LET pref == normalized_prefs[i]
           next == IF CityMatch(job_location, pref) THEN Dec(10)
                   ELSE IF CountryMatch(job_location, pref) THEN Dec(7)
                   ELSE best_score
       IN LastFrom(job_location, normalized_prefs, i + 1, next)

ScoreLocationMatchNoMax(job_location, preferred_locations, open_to_relocation, open_to_international, remote_only) ==
  IF job_location.location_type = "remote" THEN Dec(10)
  ELSE IF remote_only THEN Dec(2)
  ELSE IF preferred_locations = <<>> THEN Dec(5)
  ELSE LET normalized_prefs == [i \in 1..Len(preferred_locations) |-> NormalizeLocation(Some(preferred_locations[i]))]
           best == LastFrom(job_location, normalized_prefs, 1, FZero)
       IN IF best = FZero THEN NoMatchScore(job_location, normalized_prefs, open_to_relocation, open_to_international)
          ELSE best

ScoreLocationMatch(job_location, preferred_locations, open_to_relocation, open_to_international, remote_only) ==
  IF job_location.location_type = "remote" THEN Dec(10)
  ELSE IF remote_only /\ job_location.location_type # "remote" THEN Dec(2)
  ELSE IF preferred_locations = <<>> THEN Dec(5)
  ELSE LET normalized_prefs == [i \in 1..Len(preferred_locations) |-> NormalizeLocation(Some(preferred_locations[i]))]
           best == BestFrom(job_location, normalized_prefs, 1, FZero)
       IN IF best = FZero THEN NoMatchScore(job_location, normalized_prefs, open_to_relocation, open_to_international)
          ELSE best

(*------------------------------- matcher ---------------------------------*)

Min2(a, b) == IF a <= b THEN a ELSE b

LowerSet(q) == {StrLower(q[i]) : i \in 1..Len(q)}

\* the float literal 1.2
Dec12 == FDivInt(12, 10)

\* boost without the min(1.0, ...) clamp
SkillSimilarityNoClamp(user_skills, job_skills) ==
  IF user_skills = <<>> \/ job_skills = <<>> THEN FZero
  ELSE LET user_set == LowerSet(user_skills)
           job_set == LowerSet(job_skills)
           intersection == Cardinality(user_set \cap job_set)
           union == Cardinality(user_set \cup job_set)
           jaccard == FDivInt(intersection, union)
       IN IF union = 0 THEN FZero
          ELSE IF intersection >= 5 THEN FMul(jaccard, Dec12)
          ELSE jaccard

\* _calculate_skill_similarity (Jaccard, x1.2 boost from 5 common skills)
SkillSimilarity(user_skills, job_skills) ==
  IF user_skills = <<>> \/ job_skills = <<>> THEN FZero
  ELSE LET user_set == LowerSet(user_skills)
           job_set == LowerSet(job_skills)
           intersection == Cardinality(user_set \cap job_set)
           union == Cardinality(user_set \cup job_set)
           jaccard == FDivInt(intersection, union)
       IN IF union = 0 THEN FZero
          ELSE IF intersection >= 5 THEN LET boosted == FMul(jaccard, Dec12) IN FMin(Dec(10), boosted)
          ELSE jaccard

\* "mid" mapped to level 3
SENIORITY_LEVELSMidThree == {<<"junior", 1>>, <<"mid", 3>>, <<"senior", 3>>, <<"lead", 4>>, <<"principal", 5>>}

SENIORITY_LEVELS == {<<"junior", 1>>, <<"mid", 2>>, <<"senior", 3>>, <<"lead", 4>>, <<"principal", 5>>}

AnyIn(text, words) == \E w \in words : StrContains(text, w)

\* signed difference taken as user - job
CareerFitReversed(user_seniority, user_role, job_title) ==
  LET job_title_lower == StrLower(job_title)
      user_level == DictGet(SENIORITY_LEVELS, user_seniority, 2)
      job_level == IF AnyIn(job_title_lower, {"junior", "entry", "associate"}) THEN 1
                   ELSE IF AnyIn(job_title_lower, {"senior", "sr"}) THEN 3
                   ELSE IF AnyIn(job_title_lower, {"lead", "staff", "principal"}) THEN 4
                   ELSE 2
      level_diff == user_level - job_level
  IN IF level_diff = 0 THEN Dec(7)
     ELSE IF level_diff = 1 THEN Dec(9)
     ELSE IF level_diff = -1 THEN Dec(4)
     ELSE IF level_diff >= 2 THEN Dec(6)
     ELSE Dec(2)

\* _calculate_career_fit
CareerFit(user_seniority, user_role, job_title) ==
  LET job_title_lower == StrLower(job_title)
      user_level == DictGet(SENIORITY_LEVELS, user_seniority, 2)
      job_level == IF AnyIn(job_title_lower, {"junior", "entry", "associate"}) THEN 1
                   ELSE IF AnyIn(job_title_lower, {"senior", "sr"}) THEN 3
                   ELSE IF AnyIn(job_title_lower, {"lead", "staff", "principal"}) THEN 4
                   ELSE 2
      level_diff == job_level - user_level
  IN IF level_diff = 0 THEN Dec(7)
     ELSE IF level_diff = 1 THEN Dec(9)
     ELSE IF level_diff = -1 THEN Dec(4)
     ELSE IF level_diff >= 2 THEN Dec(6)
     ELSE Dec(2)

ROLE_KEYWORDS ==
  {<<"strategy", {"strategy", "strategic", "business strategy", "corporate strategy"}>>,
   <<"consulting", {"consultant", "consulting", "advisory", "advisory services"}>>,
   <<"operations", {"operations", "ops", "supply chain", "logistics", "process"}>>,
   <<"marketing", {"marketing", "brand", "digital marketing", "growth", "demand gen"}>>,
   <<"sales", {"sales", "business development", "account", "revenue"}>>,
   <<"finance", {"finance", "financial", "fp&a", "investment", "accounting"}>>,
   <<"hr", {"hr", "human resources", "talent", "people", "recruiting"}>>}

\* _calculate_domain_fit
\* counts keywords in the title only
DomainFitTitleOnly(user_role, job_title, job_description) ==
  LET job_text == StrLower(job_title)
      user_keywords == DictGet(ROLE_KEYWORDS, user_role, {})
      matches == Cardinality({k \in user_keywords : StrContains(job_text, k)})
  IN IF user_keywords = {} THEN Dec(5)
     ELSE IF matches >= 2 THEN Dec(10)
     ELSE IF matches = 1 THEN Dec(7)
     ELSE Dec(3)

DomainFit(user_role, job_title, job_description) ==
  LET job_text == StrLower(job_title \o " " \o job_description)
      user_keywords == DictGet(ROLE_KEYWORDS, user_role, {})
      matches == Cardinality({k \in user_keywords : StrContains(job_text, k)})
  IN IF user_keywords = {} THEN Dec(5)
     ELSE IF matches >= 2 THEN Dec(10)
     ELSE IF matches = 1 THEN Dec(7)
     ELSE Dec(3)

BUSINESS_ROLES == {"strategy", "consulting", "operations", "marketing", "sales", "finance", "hr"}

\* 0.3 * location_score + 0.4 * skill_score + 0.2 * career_score + 0.1 * domain_score, left to right
BusinessTotal(l, sk, c, d) ==
  LET t1 == FAdd(FMul(Dec(3), l), FMul(Dec(4), sk))
      t2 == FAdd(t1, FMul(Dec(2), c))
  IN FAdd(t2, FMul(Dec(1), d))

\* 0.5 * location_score + 0.4 * skill_score + 0.1 * career_score, left to right
TechTotal(l, sk, c) ==
  LET t1 == FAdd(FMul(Dec(5), l), FMul(Dec(4), sk))
  IN FAdd(t1, FMul(Dec(1), c))

\* _score_job
\* tech weighting that also adds 0.1 * domain
ScoreJobTechDomain(job, profile, prefs, open_to_relocation, open_to_international, remote_only) ==
  LET location_score == ScoreLocationMatch(job.location, prefs, open_to_relocation,
                                           open_to_international, remote_only)
      skill_score == SkillSimilarity(profile.skills \o profile.tools, job.required_skills)
      career_score == CareerFit(profile.seniority, profile.primary_role, job.title)
      domain_score == DomainFit(profile.primary_role, job.title, job.description)
      total_score == IF profile.primary_role \in BUSINESS_ROLES
                     THEN BusinessTotal(location_score, skill_score, career_score, domain_score)
                     ELSE LET t == TechTotal(location_score, skill_score, career_score)
                          IN FAdd(t, FMul(Dec(1), domain_score))
  IN [job |-> job, total_score |-> total_score, location_score |-> location_score,
      skill_score |-> skill_score, career_score |-> career_score]

ScoreJob(job, profile, prefs, open_to_relocation, open_to_international, remote_only) ==
  LET location_score == ScoreLocationMatch(job.location, prefs, open_to_relocation,
                                           open_to_international, remote_only)
      skill_score == SkillSimilarity(profile.skills \o profile.tools, job.required_skills)
      career_score == CareerFit(profile.seniority, profile.primary_role, job.title)
      domain_score == DomainFit(profile.primary_role, job.title, job.description)
      total_score == IF profile.primary_role \in BUSINESS_ROLES
                     THEN BusinessTotal(location_score, skill_score, career_score, domain_score)
                     ELSE TechTotal(location_score, skill_score, career_score)
  IN [job |-> job, total_score |-> total_score, location_score |-> location_score,
      skill_score |-> skill_score, career_score |-> career_score]

\* drops only onsite jobs under remote_only (hybrid jobs kept)
ApplyHardFiltersOnsiteOnly(jobs, remote_only) ==
  SelectSeq(jobs, LAMBDA job : ~(remote_only /\ job.location.location_type = "onsite"))

\* _apply_hard_filters
ApplyHardFilters(jobs, remote_only) ==
  SelectSeq(jobs, LAMBDA job : ~(remote_only /\ job.location.location_type # "remote"))

\* the minimum total_score 0.3
Threshold == Dec(3)

\* inserts before equal scores: ties come out in reverse input order
RECURSIVE InsertDescBeforeTies(_, _)
InsertDescBeforeTies(m, sorted) ==
  IF sorted = <<>> THEN <<m>>
  ELSE IF FGt(Head(sorted).total_score, m.total_score)
  THEN <<Head(sorted)>> \o InsertDescBeforeTies(m, Tail(sorted))
  ELSE <<m>> \o sorted

\* insertion into a list sorted by descending total_score, after equal scores
RECURSIVE InsertDesc(_, _)
InsertDesc(m, sorted) ==
  IF sorted = <<>> THEN <<m>>
  ELSE IF FGe(Head(sorted).total_score, m.total_score)
  THEN <<Head(sorted)>> \o InsertDesc(m, Tail(sorted))
  ELSE <<m>> \o sorted

RECURSIVE SortDescBeforeTiesFrom(_, _)
SortDescBeforeTiesFrom(q, sorted) ==
  IF q = <<>> THEN sorted ELSE SortDescBeforeTiesFrom(Tail(q), InsertDescBeforeTies(Head(q), sorted))

\* descending sort that is not stable
SortByTotalDescUnstable(q) == SortDescBeforeTiesFrom(q, <<>>)

RECURSIVE SortDescFrom(_, _)
SortDescFrom(q, sorted) ==
  IF q = <<>> THEN sorted ELSE SortDescFrom(Tail(q), InsertDesc(Head(q), sorted))

\* list.sort(key=total_score, reverse=True): stable, descending
SortByTotalDesc(q) == SortDescFrom(q, <<>>)

\* q[:n]; a negative n drops the last -n elements
PySliceTo(q, n) ==
  IF n >= 0 THEN SubSeq(q, 1, Min2(n, Len(q)))
  ELSE SubSeq(q, 1, IF Len(q) + n > 0 THEN Len(q) + n ELSE 0)

\* _score_job on each job of a list
ScoreAll(filtered_jobs, profile, prefs, open_to_relocation, open_to_international, remote_only) ==
  [i \in 1..Len(filtered_jobs) |->
     ScoreJob(filtered_jobs[i], profile, prefs, open_to_relocation, open_to_international, remote_only)]

\* every match carries the best total in the list (cross-job state)
MatchJobsRelative(jobs, profile, prefs, open_to_relocation, open_to_international, remote_only, max_results) ==
  LET raw == ScoreAll(ApplyHardFilters(jobs, remote_only), profile, prefs,
                      open_to_relocation, open_to_international, remote_only)
      best == CHOOSE t \in {raw[i].total_score : i \in 1..Len(raw)} :
                \A i \in 1..Len(raw) : FLe(raw[i].total_score, t)
      scored == [i \in 1..Len(raw) |-> [raw[i] EXCEPT !.total_score = best]]
      scored_jobs == SelectSeq(scored, LAMBDA x : FGe(x.total_score, Threshold))
      ranked == SortByTotalDesc(scored_jobs)
  IN PySliceTo(ranked, max_results)

\* match_jobs: hard filters, scoring, threshold, stable descending sort, [:max_results]
MatchJobs(jobs, profile, prefs, open_to_relocation, open_to_international, remote_only, max_results) ==
  PySliceTo(SortByTotalDesc(SelectSeq(ScoreAll(ApplyHardFilters(jobs, remote_only), profile, prefs,
                                               open_to_relocation, open_to_international, remote_only),
                                      LAMBDA x : FGe(x.total_score, Threshold))),
            max_results)

(*------------------------ profile_extraction/extractor -------------------*)

TECHNICAL_SKILLS ==
  {".net", "agile", "airflow", "angular", "ansible", "aws", "azure", "bash", "bigquery",
   "c#", "c++", "cassandra", "ci/cd", "circleci", "computer vision", "css", "cypress",
   "data analysis", "dbt", "deep learning", "django", "docker", "dynamodb",
   "elasticsearch", "express", "fastapi", "flask", "gcp", "git", "github actions",
   "gitlab", "go", "google cloud", "graphql", "hadoop", "html", "java", "javascript",
   "jenkins", "jest", "jwt", "k8s", "kafka", "keras", "kotlin", "kubernetes", "laravel",
   "linux", "looker", "machine learning", "matlab", "matplotlib", "microservices",
   "mongo", "mongodb", "mysql", "nlp", "node.js", "nodejs", "numpy", "oauth", "oracle",
   "pandas", "php", "postgres", "postgresql", "power bi", "pytest", "python", "pytorch",
   "r", "rails", "react", "redis", "redshift", "rest api", "ruby", "rust", "scala",
   "scikit-learn", "scipy", "scrum", "seaborn", "selenium", "shell", "snowflake",
   "spark", "spring", "sql", "sql server", "sqlite", "swift", "tableau", "tensorflow",
   "terraform", "testing", "typescript", "unit testing", "vue"}

BUSINESS_SKILLS ==
  {"a/b testing", "accounting", "agile", "analytical skills", "b2b", "b2c", "bloomberg",
   "brand strategy", "budgeting", "business strategy", "capital iq", "communication",
   "consulting", "content marketing", "copywriting", "corporate strategy", "crm", "dcf",
   "digital marketing", "email marketing", "excel", "figma", "financial analysis",
   "financial modeling", "forecasting", "fp&a", "gaap", "google analytics",
   "growth hacking", "hubspot", "ifrs", "investment banking", "kaizen", "kanban", "lbo",
   "leadership", "lean", "logistics", "management consulting", "market research",
   "marketing automation", "negotiation", "operations management", "powerpoint",
   "presentation", "private equity", "problem solving", "process improvement",
   "product management", "product strategy", "program management", "project management",
   "roadmap", "saas sales", "salesforce", "scrum", "sem", "seo", "six sigma",
   "social media", "stakeholder management", "supply chain", "team management",
   "user research", "user stories", "valuation", "venture capital", "wireframing"}

ALL_SKILLS == TECHNICAL_SKILLS \cup BUSINESS_SKILLS

\* the characters of skill names, in code-point order
ASCII_ORDER == " #&+-./0123456789ABCDEFGHIJKLMNOPQRSTUVWXYZ_abcdefghijklmnopqrstuvwxyz"

CharOrd(c) == CHOOSE i \in 1..Len(ASCII_ORDER) : SubSeq(ASCII_ORDER, i, i) = c

\* Python str < str (code-point order)
RECURSIVE StrLess(_, _)
StrLess(a, b) ==
  IF b = "" THEN FALSE
  ELSE IF a = "" THEN TRUE
  ELSE IF StrHead(a) # StrHead(b) THEN CharOrd(StrHead(a)) < CharOrd(StrHead(b))
  ELSE StrLess(StrRest(a), StrRest(b))

\* sorted(list(S))
RECURSIVE SortStrings(_)
SortStrings(S) ==
  IF S = {} THEN <<>>
  ELSE LET m == CHOOSE x \in S : \A y \in S \ {x} : StrLess(x, y)
       IN <<m>> \o SortStrings(S \ {m})

\* regex \w on Latin-1: str.isalnum() or "_"
WordChars == CasedChars \cup {"0", "1", "2", "3", "4", "5", "6", "7", "8", "9", "_", "²", "³", "¹", "¼", "½", "¾"}

\* re.search(r'\b' + re.escape(skill) + r'\b', text_lower)
WordBoundaryMatch(text_lower, skill) ==
  \E i \in 0..(Len(text_lower) - Len(skill)) :
    /\ SubSeq(text_lower, i + 1, i + Len(skill)) = skill
    /\ (IF i = 0 THEN FALSE ELSE SubSeq(text_lower, i, i) \in WordChars)
         # (StrHead(skill) \in WordChars)
    /\ (SubSeq(skill, Len(skill), Len(skill)) \in WordChars)
         # (IF i + Len(skill) = Len(text_lower) THEN FALSE
            ELSE SubSeq(text_lower, i + Len(skill) + 1, i + Len(skill) + 1) \in WordChars)

\* skills whose lower-cased text may appear as a spaCy entity of `text`
NerCandidates(text) == {x \in ALL_SKILLS : StrContains(StrLower(text), x)}

\* extract_skills; ner_skills are the entity texts spaCy adds (empty without spaCy)
ExtractSkills(text, ner_skills) ==
  LET text_lower == StrLower(text)
      found_skills == {x \in ALL_SKILLS : WordBoundaryMatch(text_lower, x)}
  IN SortStrings(found_skills \cup ner_skills)

DigitChars == {"0", "1", "2", "3", "4", "5", "6", "7", "8", "9"}

\* one character of s, "" outside 1..Len(s)
CharAt(s, k) == IF k >= 1 /\ k <= Len(s) THEN SubSeq(s, k, k) ELSE ""

\* w occurs in s starting at index k
AtStr(s, k, w) == k >= 1 /\ k + Len(w) - 1 <= Len(s) /\ SubSeq(s, k, k + Len(w) - 1) = w

RECURSIVE SkipWs(_, _)
\* first index >= k that is not whitespace (\s*)
SkipWs(s, k) == IF CharAt(s, k) \in Whitespace THEN SkipWs(s, k + 1) ELSE k

RECURSIVE RunEnd(_, _)
\* last index of the digit run starting at i (\d+, greedy)
RunEnd(s, i) == IF CharAt(s, i + 1) \in DigitChars THEN RunEnd(s, i + 1) ELSE i

RECURSIVE DigitsValue(_)
\* int() of a digit string
DigitsValue(d) ==
  IF d = "" THEN 0
  ELSE 10 * DigitsValue(SubSeq(d, 1, Len(d) - 1))
       + (CHOOSE v \in 0..9 : SubSeq("0123456789", v + 1, v + 1) = SubSeq(d, Len(d), Len(d)))

\* r'(\d+)\+?\s*years?\s+(?:of\s+)?experience' matches at the digit run starting at i
StrictMatchAt(t, i) ==
  LET k0 == RunEnd(t, i) + 1
      k1 == IF CharAt(t, k0) = "+" THEN k0 + 1 ELSE k0
      k2 == SkipWs(t, k1)
      k3 == IF CharAt(t, k2 + 4) = "s" THEN k2 + 5 ELSE k2 + 4
      m == SkipWs(t, k3)
  IN /\ AtStr(t, k2, "year")
     /\ CharAt(t, k3) \in Whitespace
     /\ \/ AtStr(t, m, "experience")
        \/ /\ AtStr(t, m, "of") /\ CharAt(t, m + 2) \in Whitespace
           /\ AtStr(t, SkipWs(t, m + 2), "experience")

\* re.findall of the strict pattern over the lower-cased text: a match can only
\* start at the first digit of a run, and then covers the whole run
StrictMatches(text) ==
  LET t == StrLower(text)
  IN {DigitsValue(SubSeq(t, i, RunEnd(t, i))) :
        i \in {k \in 1..Len(t) : CharAt(t, k) \in DigitChars /\ CharAt(t, k - 1) \notin DigitChars
                                 /\ StrictMatchAt(t, k)}}

\* smallest candidate instead of the largest
ExtractExperienceYearsMin(text) ==
  LET candidates == StrictMatches(text)
  IN IF candidates = {} THEN 1 ELSE CHOOSE c \in candidates : \A d \in candidates : c <= d

\* extract_experience_years; the date-range scan ends in `pass` and adds no candidate
ExtractExperienceYears(text) ==
  LET candidates == StrictMatches(text)
  IN IF candidates = {} THEN 1 ELSE CHOOSE c \in candidates : \A d \in candidates : d <= c

\* families, in dict order
ROLE_FAMILIES ==
  <<<<"software engineer", <<"software", "developer", "engineer", "stack", "coding">>>>,
    <<"data scientist", <<"data", "scientist", "analyst", "machine learning", "analytics">>>>,
    <<"product manager", <<"product", "manager", "owner", "roadmap", "strategy">>>>,
    <<"designer", <<"design", "ui", "ux", "creative", "graphic">>>>,
    <<"marketing", <<"marketing", "brand", "social", "content", "growth">>>>,
    <<"sales", <<"sales", "business development", "account", "client">>>>,
    <<"finance", <<"finance", "accounting", "investment", "analyst", "banking">>>>,
    <<"hr", <<"hr", "human resources", "recruiter", "talent", "people">>>>,
    <<"consulting", <<"consultant", "strategy", "advisory", "client">>>>,
    <<"operations", <<"operations", "logistics", "supply chain", "process">>>>>>

RECURSIVE CountHits(_, _)
\* for kw in keywords: if kw in combined_text: score += 1
CountHits(combined_text, keywords) ==
  IF keywords = <<>> THEN 0
  ELSE (IF StrContains(combined_text, Head(keywords)) THEN 1 ELSE 0) + CountHits(combined_text, Tail(keywords))

\* scores[family] for the family at index k
RoleScore(combined_text, k) == CountHits(combined_text, ROLE_FAMILIES[k][2])

\* text.lower() + ' ' + ' '.join(job_titles).lower()
RoleCombinedText(text, job_titles) == StrLower(text) \o " " \o StrLower(JoinWith(" ", job_titles))

\* the last family with the highest score
ExtractRoleFamilyLastMax(text, job_titles) ==
  LET c == RoleCombinedText(text, job_titles)
      n == Len(ROLE_FAMILIES)
      best == CHOOSE k \in 1..n : (\A j \in 1..n : RoleScore(c, j) <= RoleScore(c, k))
                                  /\ \A j \in (k + 1)..n : RoleScore(c, j) < RoleScore(c, k)
  IN IF RoleScore(c, best) = 0 THEN "general" ELSE ROLE_FAMILIES[best][1]

\* extract_role_family(text, job_titles): max(scores, key=scores.get) keeps the first maximum
ExtractRoleFamily(text, job_titles) ==
  LET c == RoleCombinedText(text, job_titles)
      n == Len(ROLE_FAMILIES)
      best == CHOOSE k \in 1..n : (\A j \in 1..n : RoleScore(c, j) <= RoleScore(c, k))
                                  /\ \A j \in 1..(k - 1) : RoleScore(c, j) < RoleScore(c, k)
  IN IF RoleScore(c, best) = 0 THEN "general" ELSE ROLE_FAMILIES[best][1]

\* seniority_keywords, in dict order
SENIORITY_KEYWORDS ==
  <<<<"junior", <<"junior", "entry", "associate", "graduate", "intern">>>>,
    <<"mid", <<"mid-level", "intermediate", "engineer ii", "developer ii">>>>,
    <<"senior", <<"senior", "sr", "lead", "principal", "staff", "expert">>>>,
    <<"lead", <<"lead", "team lead", "tech lead", "engineering manager">>>>,
    <<"principal", <<"principal", "distinguished", "fellow", "architect">>>>>>

\* years-based fallback of extract_seniority
SeniorityFromYears(experience_years) ==
  IF experience_years < 2 THEN "junior"
  ELSE IF experience_years < 5 THEN "mid"
  ELSE IF experience_years < 8 THEN "senior"
  ELSE "lead"

RECURSIVE SeniorityScan(_, _, _)
\* the first level (from index k on) one of whose keywords is a substring of text_lower
SeniorityScan(text_lower, k, experience_years) ==
  IF k > Len(SENIORITY_KEYWORDS) THEN SeniorityFromYears(experience_years)
  ELSE IF AnyKeyword(text_lower, SENIORITY_KEYWORDS[k][2]) THEN SENIORITY_KEYWORDS[k][1]
  ELSE SeniorityScan(text_lower, k + 1, experience_years)

\* extract_seniority(text, experience_years)
ExtractSeniority(text, experience_years) == SeniorityScan(StrLower(text), 1, experience_years)

(*------------------------- job_normalization/normalizer ------------------*)

\* Python f-string formatting of an optional string
PyStr(x) == IF x = None THEN "None" ELSE Val(x)

\* _generate_job_id: md5(...).hexdigest()[:16], md5 given as hash_fn
GenerateJobId(title, company, location, hash_fn) ==
  hash_fn[StrLower(title \o "|" \o company \o "|" \o PyStr(location))]

MaxRequiredSkills == 10

MaxDescription == 1000

\* normalize_job raised and returned None
NullJob == [ok |-> FALSE, id |-> "", title |-> "", company |-> "", location |-> NoOut0,
            source |-> "", apply_url |-> "", description |-> "", required_skills |-> <<>>,
            preferred_skills |-> <<>>, employment_type |-> "", departments |-> <<>>,
            raw_data |-> [title |-> "", company |-> "", location_raw |-> None, description |-> None]]

\* required_skills taken from the end of the skill list
NormalizeJobLast10(raw_job, hash_fn, ner_skills) ==
  IF raw_job.description = None THEN NullJob
  ELSE LET skills == ExtractSkills(Val(raw_job.description), ner_skills)
           d == Val(raw_job.description)
       IN [ok |-> TRUE,
           id |-> GenerateJobId(raw_job.title, raw_job.company, raw_job.location_raw, hash_fn),
           title |-> raw_job.title, company |-> raw_job.company,
           location |-> NormalizeLocation(raw_job.location_raw),
           source |-> "unknown", apply_url |-> "",
           description |-> SubSeq(d, 1, Min2(MaxDescription, Len(d))),
           required_skills |-> SubSeq(skills, Max2(1, Len(skills) - MaxRequiredSkills + 1), Len(skills)),
           preferred_skills |-> <<>>, employment_type |-> "full-time", departments |-> <<>>,
           raw_data |-> raw_job]

\* normalize_job: extract_skills(None) raises inside the try, giving None
NormalizeJob(raw_job, hash_fn, ner_skills) ==
  IF raw_job.description = None THEN NullJob
  ELSE LET skills == ExtractSkills(Val(raw_job.description), ner_skills)
           d == Val(raw_job.description)
       IN [ok |-> TRUE,
           id |-> GenerateJobId(raw_job.title, raw_job.company, raw_job.location_raw, hash_fn),
           title |-> raw_job.title, company |-> raw_job.company,
           location |-> NormalizeLocation(raw_job.location_raw),
           source |-> "unknown", apply_url |-> "",
           description |-> SubSeq(d, 1, Min2(MaxDescription, Len(d))),
           required_skills |-> SubSeq(skills, 1, Min2(MaxRequiredSkills, Len(skills))),
           preferred_skills |-> <<>>, employment_type |-> "full-time", departments |-> <<>>,
           raw_data |-> raw_job]

\* forgets seen_ids.add: keeps every job
RECURSIVE DedupNoAddFrom(_, _, _)
DedupNoAddFrom(jobs, seen_ids, unique_jobs) ==
  IF jobs = <<>> THEN unique_jobs
  ELSE LET job == Head(jobs)
       IN IF job.id \notin seen_ids
          THEN DedupNoAddFrom(Tail(jobs), seen_ids, Append(unique_jobs, job))
          ELSE DedupNoAddFrom(Tail(jobs), seen_ids, unique_jobs)

DeduplicateJobsNoAdd(jobs) == DedupNoAddFrom(jobs, {}, <<>>)

\* keeps the last job of each id instead of the first
RECURSIVE DedupLastFrom(_, _, _)
DedupLastFrom(jobs, seen_ids, unique_jobs) ==
  IF jobs = <<>> THEN unique_jobs
  ELSE LET job == jobs[Len(jobs)]
           front == SubSeq(jobs, 1, Len(jobs) - 1)
       IN IF job.id \notin seen_ids
          THEN DedupLastFrom(front, seen_ids \cup {job.id}, <<job>> \o unique_jobs)
          ELSE DedupLastFrom(front, seen_ids, unique_jobs)

DeduplicateJobsLast(jobs) == DedupLastFrom(jobs, {}, <<>>)

\* the `for job in jobs` loop of deduplicate_jobs
RECURSIVE DedupFrom(_, _, _)
DedupFrom(jobs, seen_ids, unique_jobs) ==
  IF jobs = <<>> THEN unique_jobs
  ELSE LET job == Head(jobs)
       IN IF job.id \notin seen_ids
          THEN DedupFrom(Tail(jobs), seen_ids \cup {job.id}, Append(unique_jobs, job))
          ELSE DedupFrom(Tail(jobs), seen_ids, unique_jobs)

DeduplicateJobs(jobs) == DedupFrom(jobs, {}, <<>>)

(*------------------------- explanations/generator ------------------------*)

\* generate_explanation returned None
NoExplanation0 == [is_null |-> TRUE, why_match |-> "", skill_matches |-> <<>>,
                   skill_gaps |-> <<>>, location_reasoning |-> ""]

\* no generic fallback sentence when no reason applies
GenerateWhyMatchNoFallback(match, profile) ==
  LET job == match.job
      r1 == IF FGe(match.skill_score, Dec(6))
            THEN <<"Strong alignment with your " \o profile.primary_role \o " background">>
            ELSE IF FGe(match.skill_score, Dec(4))
            THEN <<"Good fit for your " \o profile.primary_role \o " experience">>
            ELSE <<>>
      r2 == IF FGe(match.career_score, Dec(8)) THEN <<"Excellent career progression opportunity">>
            ELSE IF FGe(match.career_score, Dec(6)) THEN <<"Aligns with your career level">>
            ELSE <<>>
      r3 == IF FGe(match.location_score, Dec(9)) THEN <<"Perfect location match">>
            ELSE IF FGe(match.location_score, Dec(7)) THEN <<"Good location fit">>
            ELSE <<>>
      cl == profile.skill_clusters
      r4 == IF cl # <<>> /\ \E i \in 1..Len(cl) : StrContains(StrLower(job.title), cl[i])
                                                  \/ StrContains(StrLower(job.description), cl[i])
            THEN <<"Matches your expertise in " \o JoinWith(", ", SubSeq(cl, 1, Min2(2, Len(cl))))>>
            ELSE <<>>
      reasons == r1 \o r2 \o r3 \o r4
  IN IF reasons = <<>> THEN "" ELSE JoinWith(". ", reasons) \o "."

\* _generate_why_match
GenerateWhyMatch(match, profile) ==
  LET job == match.job
      r1 == IF FGe(match.skill_score, Dec(6))
            THEN <<"Strong alignment with your " \o profile.primary_role \o " background">>
            ELSE IF FGe(match.skill_score, Dec(4))
            THEN <<"Good fit for your " \o profile.primary_role \o " experience">>
            ELSE <<>>
      r2 == IF FGe(match.career_score, Dec(8)) THEN <<"Excellent career progression opportunity">>
            ELSE IF FGe(match.career_score, Dec(6)) THEN <<"Aligns with your career level">>
            ELSE <<>>
      r3 == IF FGe(match.location_score, Dec(9)) THEN <<"Perfect location match">>
            ELSE IF FGe(match.location_score, Dec(7)) THEN <<"Good location fit">>
            ELSE <<>>
      cl == profile.skill_clusters
      r4 == IF cl # <<>> /\ \E i \in 1..Len(cl) : StrContains(StrLower(job.title), cl[i])
                                                  \/ StrContains(StrLower(job.description), cl[i])
            THEN <<"Matches your expertise in " \o JoinWith(", ", SubSeq(cl, 1, Min2(2, Len(cl))))>>
            ELSE <<>>
      reasons == r1 \o r2 \o r3 \o r4
  IN JoinWith(". ", IF reasons = <<>> THEN <<"Potential fit based on your background">> ELSE reasons) \o "."

\* _find_skill_matches: user skills (original case, order) whose lower-case is shared
FindSkillMatches(user_skills, job_skills) ==
  LET matches == LowerSet(user_skills) \cap LowerSet(job_skills)
  IN SelectSeq(user_skills, LAMBDA x : StrLower(x) \in matches)

\* _find_skill_gaps: job skills (original case, order) the user lacks
FindSkillGaps(user_skills, job_skills) ==
  LET gaps == LowerSet(job_skills) \ LowerSet(user_skills)
  IN SelectSeq(job_skills, LAMBDA x : StrLower(x) \in gaps)

\* score buckets tested before the remote case
GenerateLocationReasoningScoreFirst(match, job) ==
  LET location == job.location
  IN IF FGe(match.location_score, Dec(9)) THEN "Located in your preferred area: " \o location.raw
     ELSE IF location.location_type = "remote" THEN "Remote position - work from anywhere"
     ELSE IF FGe(match.location_score, Dec(7)) THEN "Same country as your preference: " \o PyStr(location.country)
     ELSE IF FGe(match.location_score, Dec(5)) THEN "Relocation opportunity to " \o location.raw
     ELSE "Location: " \o location.raw

\* _generate_location_reasoning
GenerateLocationReasoning(match, job) ==
  LET location == job.location
  IN IF location.location_type = "remote" THEN "Remote position - work from anywhere"
     ELSE IF FGe(match.location_score, Dec(9)) THEN "Located in your preferred area: " \o location.raw
     ELSE IF FGe(match.location_score, Dec(7)) THEN "Same country as your preference: " \o PyStr(location.country)
     ELSE IF FGe(match.location_score, Dec(5)) THEN "Relocation opportunity to " \o location.raw
     ELSE "Location: " \o location.raw

\* returns an explanation whenever why_match is non-empty, ignoring skill_matches
GenerateExplanationNoVeto(match, profile) ==
  LET job == match.job
      why_match == GenerateWhyMatch(match, profile)
      skill_matches == FindSkillMatches(profile.skills \o profile.tools, job.required_skills)
      skill_gaps == FindSkillGaps(profile.skills \o profile.tools, job.required_skills)
      location_reasoning == GenerateLocationReasoning(match, job)
  IN IF why_match = "" THEN NoExplanation0
     ELSE [is_null |-> FALSE, why_match |-> why_match,
           skill_matches |-> SubSeq(skill_matches, 1, Min2(8, Len(skill_matches))),
           skill_gaps |-> SubSeq(skill_gaps, 1, Min2(5, Len(skill_gaps))),
           location_reasoning |-> location_reasoning]

\* generate_explanation; None when why_match or skill_matches is empty
GenerateExplanation(match, profile) ==
  LET job == match.job
      why_match == GenerateWhyMatch(match, profile)
      skill_matches == FindSkillMatches(profile.skills \o profile.tools, job.required_skills)
      skill_gaps == FindSkillGaps(profile.skills \o profile.tools, job.required_skills)
      location_reasoning == GenerateLocationReasoning(match, job)
  IN IF why_match = "" \/ skill_matches = <<>> THEN NoExplanation0
     ELSE [is_null |-> FALSE, why_match |-> why_match,
           skill_matches |-> SubSeq(skill_matches, 1, Min2(8, Len(skill_matches))),
           skill_gaps |-> SubSeq(skill_gaps, 1, Min2(5, Len(skill_gaps))),
           location_reasoning |-> location_reasoning]

(*------------------------------ orchestration/main -----------------------*)

\* UserPreferences() with every field at its default
DefaultPrefs ==
  [career_goals |-> None, preferred_locations |-> <<>>, open_to_relocation |-> FALSE,
   open_to_international |-> FALSE, remote_only |-> FALSE]

\* session['preferences'] = None, as stored by upload_resume (a stored UserPreferences p is <<p>>)
PrefsNone == <<>>

\* sessions[session_id] = {'profile': profile, 'preferences': None, ...}
ApiNewSession(sessions, sid, profile) == sessions @@ (sid :> [profile |-> profile, preferences |-> PrefsNone])

\* the preferences are stored only when none were stored before
ApiSetPreferencesKeepFirst(sessions, sid, pr) ==
  IF sessions[sid].preferences = PrefsNone THEN [sessions EXCEPT ![sid].preferences = <<pr>>] ELSE sessions

\* sessions[request.session_id]['preferences'] = preferences
ApiSetPreferences(sessions, sid, pr) == [sessions EXCEPT ![sid].preferences = <<pr>>]

\* preferences = session.get('preferences'); if not preferences: preferences = UserPreferences()
\* (a UserPreferences instance is always truthy)
ApiPrefsUsed(session) == IF session.preferences = PrefsNone THEN DefaultPrefs ELSE Head(session.preferences)

(*------------------------------- state ----------------------------------*)

VARIABLES
  locIn, locOut,                 \* normalize_location: argument, result
  sJob, sPrefs, sReloc, sIntl, sRemote, sOut,
                                 \* score_location_match: arguments, result
                                 \* (sPrefs .. sRemote are also the preferences of
                                 \*  match_jobs and _score_job)
  mJobs, mProfile, mMax,         \* match_jobs: jobs, profile, max_results
  mFiltered, mOut, mDone,        \* match_jobs: hard-filtered jobs, result, returned
  mRuns,                         \* match_jobs: log of calls (jobs, result) with the same profile and preferences
  dIn, dOut, dOut2, dStage,      \* deduplicate_jobs applied once, then again
  rawJobs, hashFn, spacyOn,      \* job pipeline: raw postings, md5 digest, spaCy loaded
  pNer,                          \* spaCy entity skills found per posting
  pNorm, pOut, pDone,            \* normalize_job results, deduplicated jobs, done
  kUser, kTools, kJob, kOut,     \* _calculate_skill_similarity
  cSen, cTitle, cOut,            \* _calculate_career_fit
  dmRole, dmTitle, dmDesc, dmOut, \* _calculate_domain_fit
  sjJob, sjProfile, sjOut,       \* _score_job
  eMatch, eProfile, eOut, eDone, \* generate_explanation
  xText, xTitles, xYears,        \* profile extractor: resume text, job titles, years given
  xNum, xOut, xSkills, xDone,    \* profile extractor: number result, label result, skill list, done
  apiSessions, apiLog,           \* orchestration API: the sessions dict, the log of requests answered
  apiPending                     \* recommendations requests suspended at the collect_all_jobs await

baseVars == <<locIn, locOut, sJob, sPrefs, sReloc, sIntl, sRemote, sOut,
              mJobs, mProfile, mMax, mFiltered, mOut, mDone, mRuns>>

dedupVars == <<dIn, dOut, dOut2, dStage>>

pipeVars == <<rawJobs, hashFn, spacyOn, pNer, pNorm, pOut, pDone>>

skillVars == <<kUser, kTools, kJob, kOut>>

careerVars == <<cSen, cTitle, cOut>>

domainVars == <<dmRole, dmTitle, dmDesc, dmOut>>

sjVars == <<sjJob, sjProfile, sjOut>>

explVars == <<eMatch, eProfile, eOut, eDone>>

extractVars == <<xText, xTitles, xYears, xNum, xOut, xSkills, xDone>>

apiVars == <<apiSessions, apiLog, apiPending>>

extVars == <<dedupVars, pipeVars, skillVars, careerVars, domainVars, sjVars, explVars, extractVars, apiVars>>

vars == <<baseVars, extVars>>

NoOut == [city |-> None, country |-> None, location_type |-> "<pending>", raw |-> ""]

\* a score not computed yet (outside the float values)
NoScore == [m |-> <<>>, e |-> -1]

NoProfile == [primary_role |-> "", seniority |-> "", skills |-> <<>>, tools |-> <<>>]

MatchIdle == mJobs = <<>> /\ mProfile = NoProfile /\ mMax = 0
             /\ mFiltered = <<>> /\ mOut = <<>> /\ mDone = FALSE /\ mRuns = <<>>

NoJob == [id |-> "", title |-> "", description |-> "", required_skills |-> <<>>, location |-> NoOut0]

NoJobMatch == [job |-> NoJob, total_score |-> NoScore, location_score |-> NoScore, skill_score |-> NoScore,
               career_score |-> NoScore]

NoExplanation == NoExplanation0

DedupIdle == dIn = <<>> /\ dOut = <<>> /\ dOut2 = <<>> /\ dStage = 0

PipeIdle == rawJobs = <<>> /\ hashFn = <<>> /\ spacyOn = FALSE /\ pNer = <<>>
            /\ pNorm = <<>> /\ pOut = <<>> /\ pDone = FALSE

SkillIdle == kUser = <<>> /\ kTools = <<>> /\ kJob = <<>> /\ kOut = NoScore

CareerIdle == cSen = "" /\ cTitle = "" /\ cOut = NoScore

DomainIdle == dmRole = "" /\ dmTitle = "" /\ dmDesc = "" /\ dmOut = NoScore

SjIdle == sjJob = NoJob /\ sjProfile = NoProfile /\ sjOut = NoJobMatch

ExplIdle == eMatch = NoJobMatch /\ eProfile = NoProfile /\ eOut = NoExplanation /\ eDone = FALSE

XIdle == xText = "" /\ xTitles = <<>> /\ xYears = 0 /\ xNum = 0 /\ xOut = "" /\ xSkills = <<>> /\ xDone = FALSE

ApiIdle == apiSessions = <<>> /\ apiLog = <<>> /\ apiPending = <<>>

ExtIdle == DedupIdle /\ PipeIdle /\ SkillIdle /\ CareerIdle /\ DomainIdle /\ SjIdle
           /\ ExplIdle /\ XIdle /\ ApiIdle


SeqsUpTo(S, n) == UNION {[1..k -> S] : k \in 0..n}

(* normalize_location inputs *)

LocWords == {"Remote", "WFH", "Hybrid", "flexible", "Mumbai", "bombay", "Gurugram",
             "India", "uk", "Dubai", "pune", " ", ""}

LocSpecials == {"<None>", "   ", "Remote-friendly", "work from home", "Global", "Anywhere",
                "worldwide", "Bengaluru, India", "Bangalore, India", "Delhi, India",
                "Gurugram, India", "Dubai, UAE", "Abu Dhabi, UAE", "New York, NY, USA",
                "san francisco, ca", "Pune, MH, India"}

LocStrings == LocWords \cup LocSpecials
              \cup {a \o sep \o b : a \in LocWords, b \in LocWords, sep \in {",", ", "}}
              \cup {a \o ", " \o m \o ", " \o b : a \in LocWords, m \in {"MH", " "}, b \in LocWords}

LocInputs == {None} \cup {Some(x) : x \in LocStrings}

(* score_location_match inputs *)

MaxPrefs == 2

JobLocStrings == {"Bangalore, India", "Delhi, India", "Mumbai, India", "mumbai", "Dubai, UAE",
                  "Remote", "Hybrid - Pune, IN", "London, uk", "", ", India", "<None>"}

JobLocations == {NormalizeLocation(Some(x)) : x \in JobLocStrings}
  \cup {[city |-> Some("MUMBAI"), country |-> None, location_type |-> "onsite", raw |-> "MUMBAI"],
        [city |-> Some("Delhi"), country |-> Some("india"), location_type |-> "hybrid", raw |-> "Delhi, india"],
        [city |-> Some("Pune"), country |-> Some("India"), location_type |-> "remote", raw |-> "Pune, India"]}

PrefStrings == {"Bangalore", "Mumbai", "India", "Delhi, India", "Remote", "Dubai, UAE",
                "mumbai, INDIA", "", "London, UK", "<None>"}

(* normalize_location *)

NormInit ==
  /\ locIn \in LocInputs /\ locOut = NoOut
  /\ sJob = NoOut /\ sPrefs = <<>> /\ sReloc = FALSE /\ sIntl = FALSE /\ sRemote = FALSE
  /\ sOut = NoScore
  /\ MatchIdle
  /\ ExtIdle

\* one call of normalize_location
NormalizeLocationCall ==
  /\ locOut = NoOut
  /\ locOut' = NormalizeLocation(locIn)
  /\ UNCHANGED <<locIn, sJob, sPrefs, sReloc, sIntl, sRemote, sOut,
                 mJobs, mProfile, mMax, mFiltered, mOut, mDone, mRuns>>
  /\ UNCHANGED extVars

NormNext == NormalizeLocationCall

NormSpec == NormInit /\ [][NormNext]_vars

(* score_location_match *)

ScoreInit ==
  /\ locIn = None /\ locOut = NoOut
  /\ sJob \in JobLocations /\ sPrefs \in SeqsUpTo(PrefStrings, MaxPrefs)
  /\ sReloc \in BOOLEAN /\ sIntl \in BOOLEAN /\ sRemote \in BOOLEAN
  /\ sOut = NoScore
  /\ MatchIdle
  /\ ExtIdle

\* one call of score_location_match
ScoreLocationMatchCall ==
  /\ sOut = NoScore
  /\ sOut' = ScoreLocationMatch(sJob, sPrefs, sReloc, sIntl, sRemote)
  /\ UNCHANGED <<locIn, locOut, sJob, sPrefs, sReloc, sIntl, sRemote,
                 mJobs, mProfile, mMax, mFiltered, mOut, mDone, mRuns>>
  /\ UNCHANGED extVars

ScoreNext == ScoreLocationMatchCall

ScoreSpec == ScoreInit /\ [][ScoreNext]_vars

(* match_jobs *)

MaxJobs == 3

MaxResults == 3

MkJob(id, title, description, required_skills, location_raw) ==
  [id |-> id, title |-> title, description |-> description,
   required_skills |-> required_skills, location |-> NormalizeLocation(Some(location_raw))]

Jobs ==
  {MkJob("j1", "Operations Manager", "supply chain and logistics", <<"excel", "six sigma">>, "Mumbai, India"),
   MkJob("j2", "Senior Python Engineer", "python services", <<"python", "sql", "aws">>, "Remote"),
   MkJob("j3", "Operations Manager", "supply chain and logistics", <<"excel", "six sigma">>, "Mumbai, India"),
   MkJob("j4", "Junior Sales Associate", "revenue growth", <<>>, "Delhi, India"),
   MkJob("j5", "Lead Ops Analyst", "process excellence", <<"Excel", "process improvement">>, "Hybrid - Pune")}

Profiles ==
  {[primary_role |-> "operations", seniority |-> "mid",
    skills |-> <<"Excel", "process improvement">>, tools |-> <<>>],
   [primary_role |-> "software engineer", seniority |-> "senior",
    skills |-> <<"python", "sql">>, tools |-> <<"docker">>]}

\* normalized job lists are deduplicated by id: no job occurs twice
JobLists == {q \in SeqsUpTo(Jobs, MaxJobs) : \A i, j \in 1..Len(q) : i # j => q[i].id # q[j].id}

MatchInit ==
  /\ locIn = None /\ locOut = NoOut /\ sJob = NoOut /\ sOut = NoScore
  /\ sPrefs \in {<<>>, <<"Mumbai">>} /\ sReloc = FALSE /\ sIntl = FALSE /\ sRemote \in BOOLEAN
  /\ mJobs \in JobLists /\ mProfile \in Profiles /\ mMax \in -1..MaxResults
  /\ mFiltered = <<>> /\ mOut = <<>> /\ mDone = FALSE /\ mRuns = <<>>
  /\ ExtIdle

\* one call of match_jobs
MatchJobsCall ==
  /\ mDone = FALSE
  /\ mFiltered' = ApplyHardFilters(mJobs, sRemote)
  /\ mOut' = MatchJobs(mJobs, mProfile, sPrefs, sReloc, sIntl, sRemote, mMax)
  /\ mDone' = TRUE
  /\ UNCHANGED <<locIn, locOut, sJob, sPrefs, sReloc, sIntl, sRemote, sOut, mJobs, mProfile, mMax, mRuns>>
  /\ UNCHANGED extVars

MatchNext == MatchJobsCall

MatchSpec == MatchInit /\ [][MatchNext]_vars

(* match_jobs called repeatedly on job lists with one profile and one set of preferences *)

MaxRuns == 2

\* job lists of the repeated calls
IndepLists == {q \in JobLists : Len(q) <= 2}

IndepInit ==
  /\ locIn = None /\ locOut = NoOut /\ sJob = NoOut /\ sOut = NoScore
  /\ sPrefs \in {<<>>, <<"Mumbai">>} /\ sReloc = FALSE /\ sIntl = FALSE /\ sRemote \in BOOLEAN
  /\ mJobs = <<>> /\ mProfile \in Profiles /\ mMax = MaxResults
  /\ mFiltered = <<>> /\ mOut = <<>> /\ mDone = FALSE /\ mRuns = <<>>
  /\ ExtIdle

\* one more call of match_jobs, on any job list
MatchJobsRun ==
  /\ Len(mRuns) < MaxRuns
  /\ \E jobs \in IndepLists :
       mRuns' = Append(mRuns, [jobs |-> jobs, out |-> MatchJobs(jobs, mProfile, sPrefs, sReloc, sIntl, sRemote, mMax)])
  /\ UNCHANGED <<locIn, locOut, sJob, sPrefs, sReloc, sIntl, sRemote, sOut,
                 mJobs, mProfile, mMax, mFiltered, mOut, mDone>>
  /\ UNCHANGED extVars

IndepNext == MatchJobsRun

IndepSpec == IndepInit /\ [][IndepNext]_vars

(* generate_explanation on matches scored by _score_job *)

ExplProfiles ==
  {[primary_role |-> "operations", seniority |-> "mid", skills |-> <<"Excel", "process improvement">>,
    tools |-> <<>>, skill_clusters |-> <<"operations", "supply chain", "lean">>],
   [primary_role |-> "software engineer", seniority |-> "junior", skills |-> <<"python", "SQL">>,
    tools |-> <<"docker">>, skill_clusters |-> <<>>],
   [primary_role |-> "hr", seniority |-> "lead", skills |-> <<>>,
    tools |-> <<"excel">>, skill_clusters |-> <<"talent">>],
   [primary_role |-> "finance", seniority |-> "mid", skills |-> <<"Excel", "financial modeling">>,
    tools |-> <<"excel">>, skill_clusters |-> <<>>],
   [primary_role |-> "data", seniority |-> "senior",
    skills |-> <<"python", "sql", "aws", "docker", "git", "linux", "react", "java", "go">>,
    tools |-> <<>>, skill_clusters |-> <<"data">>]}

ExplJobs ==
  {MkJob("j1", "Operations Manager", "supply chain and logistics", <<"excel", "six sigma">>, "Mumbai, India"),
   MkJob("j2", "Senior Python Engineer", "python services", <<"python", "sql", "aws">>, "Remote"),
   MkJob("j4", "Junior Sales Associate", "revenue growth", <<>>, "Delhi, India"),
   MkJob("j6", "Lead Recruiter", "talent acquisition", <<"Excel", "figma">>, "Pune, India"),
   MkJob("j7", "Staff Platform Engineer", "data platform",
         <<"python", "sql", "aws", "docker", "git", "linux", "react", "java", "go", "rust">>, "Remote"),
   MkJob("j8", "Junior Analyst", "weekly reporting", <<"excel", "sql", "tableau">>, "Delhi, India")}

ExplInit ==
  /\ locIn = None /\ locOut = NoOut /\ sJob = NoOut /\ sOut = NoScore
  /\ sPrefs \in {<<>>, <<"Mumbai">>, <<"Pune">>, <<"Mumbai, India">>} /\ sReloc \in BOOLEAN /\ sIntl = FALSE /\ sRemote = FALSE
  /\ MatchIdle /\ DedupIdle /\ PipeIdle /\ SkillIdle /\ CareerIdle /\ DomainIdle /\ SjIdle /\ XIdle /\ ApiIdle
  /\ eProfile \in ExplProfiles
  /\ \E j \in ExplJobs : eMatch = ScoreJob(j, eProfile, sPrefs, sReloc, sIntl, sRemote)
  /\ eOut = NoExplanation /\ eDone = FALSE

\* generate_explanation(match, profile)
GenerateExplanationCall ==
  /\ eDone = FALSE
  /\ eOut' = GenerateExplanation(eMatch, eProfile)
  /\ eDone' = TRUE
  /\ UNCHANGED <<eMatch, eProfile>>
  /\ UNCHANGED <<baseVars, dedupVars, pipeVars, skillVars, careerVars, domainVars, sjVars, extractVars, apiVars>>

ExplNext == GenerateExplanationCall

ExplSpec == ExplInit /\ [][ExplNext]_vars

(* upload-resume, set-preferences, recommendations *)

MaxRequests == 4

SessionIds == {"s1", "s2"}

RequestIds == SessionIds \cup {"s9"}

ApiProfiles == {"profileA", "profileB"}

PrefValues ==
  {DefaultPrefs,
   [DefaultPrefs EXCEPT !.preferred_locations = <<"Pune">>, !.open_to_relocation = TRUE],
   [DefaultPrefs EXCEPT !.remote_only = TRUE, !.career_goals = Some("lead a team")],
   [DefaultPrefs EXCEPT !.career_goals = Some("<unset>")]}

\* one answered request; start is the number of requests answered when it read the sessions dict
LogEntry(kind, sid, code, prefs, profile, start) ==
  [kind |-> kind, sid |-> sid, code |-> code, prefs |-> prefs, profile |-> profile, start |-> start]

\* requests answered or in flight
ApiRequests == Len(apiLog) + Len(apiPending)

ApiInit ==
  /\ locIn = None /\ locOut = NoOut /\ sJob = NoOut /\ sOut = NoScore
  /\ sPrefs = <<>> /\ sReloc = FALSE /\ sIntl = FALSE /\ sRemote = FALSE
  /\ MatchIdle /\ DedupIdle /\ PipeIdle /\ SkillIdle /\ CareerIdle /\ DomainIdle /\ SjIdle /\ ExplIdle /\ XIdle
  /\ ApiIdle

\* POST /api/upload-resume: a fresh uuid4 session with the extracted profile, answered
\* 200, or 500 when file_path.unlink() in the finally block raises after the session
\* was stored; or an error (400 bad extension, 422 invalid content, 500 extraction
\* failure) storing nothing
UploadResume ==
  /\ ApiRequests < MaxRequests
  /\ \/ \E sid \in SessionIds \ DOMAIN apiSessions, p \in ApiProfiles, code \in {200, 500} :
          /\ apiSessions' = ApiNewSession(apiSessions, sid, p)
          /\ apiLog' = Append(apiLog, LogEntry("upload", sid, code, PrefsNone, p, Len(apiLog)))
     \/ \E code \in {400, 422, 500} :
          /\ apiLog' = Append(apiLog, LogEntry("upload", "", code, PrefsNone, "", Len(apiLog)))
          /\ UNCHANGED apiSessions
  /\ UNCHANGED apiPending
  /\ UNCHANGED <<baseVars, dedupVars, pipeVars, skillVars, careerVars, domainVars, sjVars, explVars, extractVars>>

\* POST /api/set-preferences
SetPreferences ==
  /\ ApiRequests < MaxRequests
  /\ \E sid \in RequestIds, pr \in PrefValues :
       IF sid \notin DOMAIN apiSessions
       THEN /\ apiLog' = Append(apiLog, LogEntry("set", sid, 404, <<pr>>, "", Len(apiLog)))
            /\ UNCHANGED apiSessions
       ELSE /\ apiSessions' = ApiSetPreferences(apiSessions, sid, pr)
            /\ apiLog' = Append(apiLog, LogEntry("set", sid, 200, <<pr>>, apiSessions[sid].profile, Len(apiLog)))
  /\ UNCHANGED apiPending
  /\ UNCHANGED <<baseVars, dedupVars, pipeVars, skillVars, careerVars, domainVars, sjVars, explVars, extractVars>>

\* GET /api/recommendations up to its first await: 404 for an unknown session,
\* otherwise the profile and the preferences are read and the request suspends in
\* orchestrator.collect_all_jobs
GetRecommendations ==
  /\ ApiRequests < MaxRequests
  /\ \E sid \in RequestIds :
       IF sid \notin DOMAIN apiSessions
       THEN /\ apiLog' = Append(apiLog, LogEntry("rec", sid, 404, PrefsNone, "", Len(apiLog)))
            /\ UNCHANGED apiPending
       ELSE /\ apiPending' = Append(apiPending, [sid |-> sid, prefs |-> ApiPrefsUsed(apiSessions[sid]),
                                                 profile |-> apiSessions[sid].profile, start |-> Len(apiLog)])
            /\ UNCHANGED apiLog
  /\ UNCHANGED apiSessions
  /\ UNCHANGED <<baseVars, dedupVars, pipeVars, skillVars, careerVars, domainVars, sjVars, explVars, extractVars>>

\* GET /api/recommendations after the await: the pipeline runs on the profile and
\* preferences read before it and answers 200, or 500 when anything in the try block
\* raises (JobOrchestrator's mkdir, _save_raw_jobs, the pipeline); the session is not written
GetRecommendationsResume ==
  /\ \E i \in 1..Len(apiPending), code \in {200, 500} :
       LET r == apiPending[i]
       IN /\ apiLog' = Append(apiLog, LogEntry("rec", r.sid, code, <<r.prefs>>, r.profile, r.start))
          /\ apiPending' = SubSeq(apiPending, 1, i - 1) \o SubSeq(apiPending, i + 1, Len(apiPending))
  /\ UNCHANGED apiSessions
  /\ UNCHANGED <<baseVars, dedupVars, pipeVars, skillVars, careerVars, domainVars, sjVars, explVars, extractVars>>

ApiNext == UploadResume \/ SetPreferences \/ GetRecommendations \/ GetRecommendationsResume

ApiSpec == ApiInit /\ [][ApiNext]_vars

(* extract_skills *)

SkillFragments == {"Proficient in Python, JavaScript, React, and AWS.", "Experience with Docker and Kubernetes.",
                   "C++ and Go", "services in .NET and C#", "Excel, SQL and Tableau",
                   "pythonic javascripting", "", "Node.js APIs"}

SkillTexts == {a \o " " \o b : a, b \in SkillFragments}

ExtractSkillsInit ==
  /\ locIn = None /\ locOut = NoOut /\ sJob = NoOut /\ sOut = NoScore
  /\ sPrefs = <<>> /\ sReloc = FALSE /\ sIntl = FALSE /\ sRemote = FALSE
  /\ MatchIdle /\ DedupIdle /\ PipeIdle /\ SkillIdle /\ CareerIdle /\ DomainIdle /\ SjIdle /\ ExplIdle
  /\ xText \in SkillTexts /\ xTitles = <<>> /\ xYears = 0 /\ xNum = 0 /\ xOut = "" /\ xSkills = <<>> /\ xDone = FALSE /\ ApiIdle

\* extract_skills(text): the entity texts spaCy adds are open (any set of skills
\* occurring in the text; none without spaCy)
ExtractSkillsCall ==
  /\ xDone = FALSE
  /\ \E ner \in SUBSET NerCandidates(xText) :
       xSkills' = ExtractSkills(xText, ner)
  /\ xDone' = TRUE
  /\ UNCHANGED <<xText, xTitles, xYears, xNum, xOut>>
  /\ UNCHANGED <<baseVars, dedupVars, pipeVars, skillVars, careerVars, domainVars, sjVars, explVars, apiVars>>

ExtractSkillsNext == ExtractSkillsCall

ExtractSkillsSpec == ExtractSkillsInit /\ [][ExtractSkillsNext]_vars

(* extract_experience_years *)

YearFragments == {"5+ years of experience", "3 years experience", "10 yrs of experience",
                  "7 YEARS OF EXPERIENCE", "Experience: 4 years", "12years   of  experience",
                  "1 5 years experience", "(2018 - 2020)", "0 years experience",
                  "3 years of of experience", "5+ + years experience", "",
                  "Software Engineer, TechCorp (2020 - 2023)", "Developer, StartupXYZ (2018 - 2020)"}

YearTexts == {a \o "; " \o b : a, b \in YearFragments}

YearsInit ==
  /\ locIn = None /\ locOut = NoOut /\ sJob = NoOut /\ sOut = NoScore
  /\ sPrefs = <<>> /\ sReloc = FALSE /\ sIntl = FALSE /\ sRemote = FALSE
  /\ MatchIdle /\ DedupIdle /\ PipeIdle /\ SkillIdle /\ CareerIdle /\ DomainIdle /\ SjIdle /\ ExplIdle
  /\ xText \in YearTexts /\ xTitles = <<>> /\ xYears = 0 /\ xNum = 0 /\ xOut = "" /\ xSkills = <<>> /\ xDone = FALSE /\ ApiIdle

\* extract_experience_years(text)
ExtractExperienceYearsCall ==
  /\ xDone = FALSE
  /\ xNum' = ExtractExperienceYears(xText)
  /\ xDone' = TRUE
  /\ UNCHANGED <<xText, xTitles, xYears, xOut, xSkills>>
  /\ UNCHANGED <<baseVars, dedupVars, pipeVars, skillVars, careerVars, domainVars, sjVars, explVars, apiVars>>

YearsNext == ExtractExperienceYearsCall

YearsSpec == YearsInit /\ [][YearsNext]_vars

(* extract_role_family *)

RoleTexts == {"Backend developer with expertise in API development", "Financial analyst in investment banking",
              "Data analyst", "Client strategy advisory", "Talent acquisition for people teams",
              "Logistics and supply chain process", "Graphic design and UX", "Cooking", "",
              "Brand content growth", "Account sales", "Senior Analyst"}

RoleTitleLists == {<<>>, <<"Backend Engineer", "Software Developer">>, <<"Product Owner">>,
                   <<"HR Manager">>, <<"Sales Account Executive">>}

RoleInit ==
  /\ locIn = None /\ locOut = NoOut /\ sJob = NoOut /\ sOut = NoScore
  /\ sPrefs = <<>> /\ sReloc = FALSE /\ sIntl = FALSE /\ sRemote = FALSE
  /\ MatchIdle /\ DedupIdle /\ PipeIdle /\ SkillIdle /\ CareerIdle /\ DomainIdle /\ SjIdle /\ ExplIdle
  /\ xText \in RoleTexts /\ xTitles \in RoleTitleLists /\ xYears = 0 /\ xNum = 0 /\ xOut = "" /\ xSkills = <<>> /\ xDone = FALSE /\ ApiIdle

\* extract_role_family(text, job_titles)
ExtractRoleFamilyCall ==
  /\ xDone = FALSE
  /\ xOut' = ExtractRoleFamily(xText, xTitles)
  /\ xDone' = TRUE
  /\ UNCHANGED <<xText, xTitles, xYears, xNum, xSkills>>
  /\ UNCHANGED <<baseVars, dedupVars, pipeVars, skillVars, careerVars, domainVars, sjVars, explVars, apiVars>>

RoleNext == ExtractRoleFamilyCall

RoleSpec == RoleInit /\ [][RoleNext]_vars

(* extract_seniority *)

MaxYears == 9

SeniorityTexts == {"Senior Software Engineer with 6 years of experience", "Software Engineer",
                   "Tech Lead", "Team Lead at Acme", "Principal Engineer", "Distinguished Engineer",
                   "Engineering Manager", "Junior Developer", "Mid-level Developer", "Staff Engineer",
                   "Cloud Architect", "Data Analyst"}

SeniorityInit ==
  /\ locIn = None /\ locOut = NoOut /\ sJob = NoOut /\ sOut = NoScore
  /\ sPrefs = <<>> /\ sReloc = FALSE /\ sIntl = FALSE /\ sRemote = FALSE
  /\ MatchIdle /\ DedupIdle /\ PipeIdle /\ SkillIdle /\ CareerIdle /\ DomainIdle /\ SjIdle /\ ExplIdle
  /\ xText \in SeniorityTexts /\ xTitles = <<>> /\ xYears \in 0..MaxYears /\ xNum = 0 /\ xOut = "" /\ xSkills = <<>> /\ xDone = FALSE /\ ApiIdle

\* extract_seniority(text, experience_years)
ExtractSeniorityCall ==
  /\ xDone = FALSE
  /\ xOut' = ExtractSeniority(xText, xYears)
  /\ xDone' = TRUE
  /\ UNCHANGED <<xText, xTitles, xYears, xNum, xSkills>>
  /\ UNCHANGED <<baseVars, dedupVars, pipeVars, skillVars, careerVars, domainVars, sjVars, explVars, apiVars>>

SeniorityNext == ExtractSeniorityCall

SenioritySpec == SeniorityInit /\ [][SeniorityNext]_vars

(* deduplicate_jobs *)

MaxDedup == 4

DedupJobs == {[id |-> i, title |-> t] : i \in {"a", "b"}, t \in {"Dev", "PM"}}

DedupInit ==
  /\ locIn = None /\ locOut = NoOut /\ sJob = NoOut /\ sOut = NoScore
  /\ sPrefs = <<>> /\ sReloc = FALSE /\ sIntl = FALSE /\ sRemote = FALSE
  /\ MatchIdle
  /\ dIn \in SeqsUpTo(DedupJobs, MaxDedup) /\ dOut = <<>> /\ dOut2 = <<>> /\ dStage = 0
  /\ PipeIdle /\ SkillIdle /\ CareerIdle /\ DomainIdle /\ SjIdle /\ ExplIdle /\ XIdle /\ ApiIdle

\* deduplicate_jobs(L)
DeduplicateCall ==
  /\ dStage = 0
  /\ dOut' = DeduplicateJobs(dIn)
  /\ dStage' = 1
  /\ UNCHANGED <<dIn, dOut2>>
  /\ UNCHANGED baseVars
  /\ UNCHANGED <<pipeVars, skillVars, careerVars, domainVars, sjVars, explVars, extractVars, apiVars>>

\* deduplicate_jobs(deduplicate_jobs(L))
DeduplicateAgainCall ==
  /\ dStage = 1
  /\ dOut2' = DeduplicateJobs(dOut)
  /\ dStage' = 2
  /\ UNCHANGED <<dIn, dOut>>
  /\ UNCHANGED baseVars
  /\ UNCHANGED <<pipeVars, skillVars, careerVars, domainVars, sjVars, explVars, extractVars, apiVars>>

DedupNext == DeduplicateCall \/ DeduplicateAgainCall

DedupSpec == DedupInit /\ [][DedupNext]_vars

(* get_recommendations steps 2-3: normalize_job on each raw posting, drop None,
   deduplicate_jobs *)

MaxRaw == 2

\* md5 digests truncated to 16 hex characters; md5 is any fixed function into them
Digests == {"0f1e2d3c4b5a6978", "a1b2c3d4e5f60718"}

MkRaw(title, company, location_raw, description) ==
  [title |-> title, company |-> company, location_raw |-> location_raw, description |-> description]

PipeRawJobs == {MkRaw(t, "Acme", l, d) : t \in {"Dev", "DEV", "PM"}, l \in {Some("Pune"), Some("pune"), None},
                                         d \in {Some("python"), None}}

JobIdInputs(raws) == {StrLower(r.title \o "|" \o r.company \o "|" \o PyStr(r.location_raw)) : r \in raws}

RECURSIVE NerSeqs(_, _)
NerSeqs(raws, spacy_loaded) ==
  IF raws = <<>> THEN {<<>>}
  ELSE LET d == Head(raws).description
           cands == IF d = None \/ ~spacy_loaded THEN {} ELSE NerCandidates(Val(d))
       IN {<<o>> \o r : o \in SUBSET cands,
                        r \in NerSeqs(Tail(raws), spacy_loaded)}

PipeInit ==
  /\ locIn = None /\ locOut = NoOut /\ sJob = NoOut /\ sOut = NoScore
  /\ sPrefs = <<>> /\ sReloc = FALSE /\ sIntl = FALSE /\ sRemote = FALSE
  /\ MatchIdle /\ DedupIdle
  /\ rawJobs \in SeqsUpTo(PipeRawJobs, MaxRaw)
  /\ hashFn \in [JobIdInputs(PipeRawJobs) -> Digests]
  /\ spacyOn = FALSE /\ pNer = <<>>
  /\ pNorm = <<>> /\ pOut = <<>> /\ pDone = FALSE
  /\ SkillIdle /\ CareerIdle /\ DomainIdle /\ SjIdle /\ ExplIdle /\ XIdle /\ ApiIdle

\* normalize every raw job (spaCy entities chosen per job), keep non-None, deduplicate
NormalizeAndDeduplicate ==
  /\ pDone = FALSE
  /\ \E ner \in NerSeqs(rawJobs, spacyOn) :
       LET normalized == [i \in 1..Len(rawJobs) |-> NormalizeJob(rawJobs[i], hashFn, ner[i])]
       IN /\ pNer' = ner
          /\ pNorm' = normalized
          /\ pOut' = DeduplicateJobs(SelectSeq(normalized, LAMBDA j : j.ok))
  /\ pDone' = TRUE
  /\ UNCHANGED <<rawJobs, hashFn, spacyOn>>
  /\ UNCHANGED <<baseVars, dedupVars, skillVars, careerVars, domainVars, sjVars, explVars, extractVars, apiVars>>

PipeNext == NormalizeAndDeduplicate

PipeSpec == PipeInit /\ [][PipeNext]_vars

(* normalize_job on one raw posting *)

RECURSIVE Repeat(_, _)
Repeat(str, n) == IF n = 0 THEN "" ELSE str \o Repeat(str, n - 1)

\* 1100 characters; character 1000 falls inside a word
LongDesc == Repeat("python and sql with aws ", 45) \o "kubernetes"

ManySkillsDesc == "python, java, sql, aws, docker, kubernetes, excel, tableau, react, git, linux, figma"

JobDescriptions == {None} \cup {Some(x) : x \in {"", "Python, SQL and AWS", "c++ and R developer, Node.js, CI/CD",
                                                 ManySkillsDesc, LongDesc}}

\* descriptions also run with spaCy loaded (every entity subset is tried)
SpacyDescriptions == {None} \cup {Some(x) : x \in {"", "Python, SQL and AWS", "c++ and R developer, Node.js, CI/CD"}}

NormJobRawJobs == {MkRaw("Dev", "Acme", l, d) : l \in {Some("Pune"), Some("<None>"), None}, d \in JobDescriptions}

NormJobInit ==
  /\ locIn = None /\ locOut = NoOut /\ sJob = NoOut /\ sOut = NoScore
  /\ sPrefs = <<>> /\ sReloc = FALSE /\ sIntl = FALSE /\ sRemote = FALSE
  /\ MatchIdle /\ DedupIdle
  /\ \E r \in NormJobRawJobs : rawJobs = <<r>>
  /\ hashFn \in [JobIdInputs(NormJobRawJobs) -> Digests]
  /\ spacyOn \in IF rawJobs[1].description \in SpacyDescriptions THEN BOOLEAN ELSE {FALSE}
  /\ pNer = <<>> /\ pNorm = <<>> /\ pOut = <<>> /\ pDone = FALSE
  /\ SkillIdle /\ CareerIdle /\ DomainIdle /\ SjIdle /\ ExplIdle /\ XIdle /\ ApiIdle

\* normalize_job(raw_job), with the entity skills spaCy returns when it is loaded
NormalizeJobCall ==
  /\ pDone = FALSE
  /\ \E ner \in NerSeqs(rawJobs, spacyOn) :
       /\ pNer' = ner
       /\ pNorm' = <<NormalizeJob(rawJobs[1], hashFn, ner[1])>>
  /\ pDone' = TRUE
  /\ UNCHANGED <<rawJobs, hashFn, spacyOn, pOut>>
  /\ UNCHANGED <<baseVars, dedupVars, skillVars, careerVars, domainVars, sjVars, explVars, extractVars, apiVars>>

NormJobNext == NormalizeJobCall

NormJobSpec == NormJobInit /\ [][NormJobNext]_vars

(* _calculate_skill_similarity on skill lists over a small alphabet *)

NumSkills == 7

SkillLetters == {SubSeq("abcdefghij", i, i) : i \in 1..NumSkills}

UpperFirst(q) == IF q = <<>> THEN q ELSE <<CharUpper(q[1])>> \o Tail(q)

SkillLists == {SortStrings(S) : S \in SUBSET SkillLetters}

UserSkillLists == SkillLists \cup {UpperFirst(q) : q \in SkillLists}

ToolLists == {<<>>, <<"A">>}

SkillInit ==
  /\ locIn = None /\ locOut = NoOut /\ sJob = NoOut /\ sOut = NoScore
  /\ sPrefs = <<>> /\ sReloc = FALSE /\ sIntl = FALSE /\ sRemote = FALSE
  /\ MatchIdle /\ DedupIdle /\ PipeIdle
  /\ kUser \in UserSkillLists /\ kTools \in ToolLists /\ kJob \in SkillLists /\ kOut = NoScore
  /\ CareerIdle /\ DomainIdle /\ SjIdle /\ ExplIdle /\ XIdle /\ ApiIdle

\* _score_job's call: _calculate_skill_similarity(profile.skills + profile.tools, job.required_skills)
SkillSimilarityCall ==
  /\ kOut = NoScore
  /\ kOut' = SkillSimilarity(kUser \o kTools, kJob)
  /\ UNCHANGED <<kUser, kTools, kJob>>
  /\ UNCHANGED <<baseVars, dedupVars, pipeVars, careerVars, domainVars, sjVars, explVars, extractVars, apiVars>>

SkillNext == SkillSimilarityCall

SkillSpec == SkillInit /\ [][SkillNext]_vars

(* _calculate_career_fit over user seniorities and job titles *)

Seniorities == {"junior", "mid", "senior", "lead", "principal", "Senior", "intern"}

CareerTitles == {"Junior Analyst", "Associate Consultant", "Entry Level Ops", "Senior Engineer",
                 "Sr. Manager", "Lead Engineer", "Staff Engineer", "Principal PM",
                 "Product Manager", "Senior Associate", "Team Lead, Sr Ops"}

CareerInit ==
  /\ locIn = None /\ locOut = NoOut /\ sJob = NoOut /\ sOut = NoScore
  /\ sPrefs = <<>> /\ sReloc = FALSE /\ sIntl = FALSE /\ sRemote = FALSE
  /\ MatchIdle /\ DedupIdle /\ PipeIdle /\ SkillIdle
  /\ cSen \in Seniorities /\ cTitle \in CareerTitles /\ cOut = NoScore
  /\ DomainIdle /\ SjIdle /\ ExplIdle /\ XIdle /\ ApiIdle

\* _score_job's call: _calculate_career_fit(profile.seniority, profile.primary_role, job.title)
CareerFitCall ==
  /\ cOut = NoScore
  /\ cOut' = CareerFit(cSen, "", cTitle)
  /\ UNCHANGED <<cSen, cTitle>>
  /\ UNCHANGED <<baseVars, dedupVars, pipeVars, skillVars, domainVars, sjVars, explVars, extractVars, apiVars>>

CareerNext == CareerFitCall

CareerSpec == CareerInit /\ [][CareerNext]_vars

(* _calculate_domain_fit over roles and (title, description) pairs *)

DomainRoles == BUSINESS_ROLES \cup {"software engineer", "Strategy"}

DomainPostings == {<<"Strategy Manager", "Leading business strategy initiatives...">>,
                   <<"Management Consultant", "Providing advisory services...">>,
                   <<"Operations Manager", "Managing supply chain and logistics...">>,
                   <<"Software Engineer", "Building backend APIs...">>,
                   <<"Account Executive", "Drive revenue growth">>,
                   <<"HR Business Partner", "Talent and people programs">>,
                   <<"Financial Analyst", "FP&A reporting">>,
                   <<"Brand Lead", "">>}

DomainInit ==
  /\ locIn = None /\ locOut = NoOut /\ sJob = NoOut /\ sOut = NoScore
  /\ sPrefs = <<>> /\ sReloc = FALSE /\ sIntl = FALSE /\ sRemote = FALSE
  /\ MatchIdle /\ DedupIdle /\ PipeIdle /\ SkillIdle /\ CareerIdle
  /\ dmRole \in DomainRoles
  /\ \E p \in DomainPostings : dmTitle = p[1] /\ dmDesc = p[2]
  /\ dmOut = NoScore
  /\ SjIdle /\ ExplIdle /\ XIdle /\ ApiIdle

\* _score_job's call: _calculate_domain_fit(profile.primary_role, job.title, job.description)
DomainFitCall ==
  /\ dmOut = NoScore
  /\ dmOut' = DomainFit(dmRole, dmTitle, dmDesc)
  /\ UNCHANGED <<dmRole, dmTitle, dmDesc>>
  /\ UNCHANGED <<baseVars, dedupVars, pipeVars, skillVars, careerVars, sjVars, explVars, extractVars, apiVars>>

DomainNext == DomainFitCall

DomainSpec == DomainInit /\ [][DomainNext]_vars

(* _score_job on one job, profile and preference set *)

SjDescriptions == {"supply chain and logistics", "", "python services", "revenue growth"}

SjJobs ==
  {MkJob("j1", "Operations Manager", d, <<"excel", "six sigma">>, "Mumbai, India") : d \in SjDescriptions}
  \cup {MkJob("j2", "Senior Python Engineer", "python services", <<"python", "sql", "aws">>, "Remote"),
        MkJob("j5", "Lead Ops Analyst", "process excellence", <<"Excel", "process improvement">>, "Hybrid - Pune")}

SjProfiles ==
  Profiles \cup
  {[primary_role |-> "operations", seniority |-> "mid",
    skills |-> <<"excel", "process improvement">>, tools |-> <<>>],
   [primary_role |-> "hr", seniority |-> "junior", skills |-> <<"excel">>, tools |-> <<"figma">>],
   [primary_role |-> "Operations", seniority |-> "mid", skills |-> <<"excel">>, tools |-> <<>>]}

SjInit ==
  /\ locIn = None /\ locOut = NoOut /\ sOut = NoScore /\ sJob = NoOut
  /\ sPrefs \in {<<>>, <<"Mumbai">>, <<"Remote">>}
  /\ sReloc \in BOOLEAN /\ sIntl = FALSE /\ sRemote \in BOOLEAN
  /\ MatchIdle /\ DedupIdle /\ PipeIdle /\ SkillIdle /\ CareerIdle /\ DomainIdle
  /\ sjJob \in SjJobs /\ sjProfile \in SjProfiles /\ sjOut = NoJobMatch
  /\ ExplIdle /\ XIdle /\ ApiIdle

\* _score_job(job, profile, preferences)
ScoreJobCall ==
  /\ sjOut = NoJobMatch
  /\ sjOut' = ScoreJob(sjJob, sjProfile, sPrefs, sReloc, sIntl, sRemote)
  /\ UNCHANGED <<sjJob, sjProfile>>
  /\ UNCHANGED <<baseVars, dedupVars, pipeVars, skillVars, careerVars, domainVars, explVars, extractVars, apiVars>>

SjNext == ScoreJobCall

SjSpec == SjInit /\ [][SjNext]_vars

(*------------------------ claims on normalize_location -------------------*)

DefaultLocation == [city |-> None, country |-> None, location_type |-> "onsite", raw |-> "Not specified"]

\* C8 (claim as stated): normalize_location maps empty input, and whitespace-only
\* input, to {city: null, country: null, location_type: onsite, raw: "Not specified"}.
C8_EmptyOrBlankDefaults ==
  (locOut # NoOut /\ (locIn = None \/ StrStrip(Val(locIn)) = "")) => locOut = DefaultLocation

\* C9: a string whose lower-cased form contains a remote keyword is remote with no
\* city and no country; otherwise one containing a hybrid keyword is hybrid;
\* otherwise it is onsite.
C9_RemoteHybridOnsite ==
  (locOut # NoOut /\ locIn # None) =>
    LET l == StrLower(Val(locIn)) IN
    IF \E k \in {"remote", "anywhere", "worldwide", "global", "work from home", "wfh"} : StrContains(l, k)
    THEN locOut.location_type = "remote" /\ locOut.city = None /\ locOut.country = None
    ELSE IF \E k \in {"hybrid", "flexible", "remote-friendly"} : StrContains(l, k)
    THEN locOut.location_type = "hybrid"
    ELSE locOut.location_type = "onsite"

C9_Witness ==
  /\ locOut # NoOut /\ locIn # None
  /\ locOut.location_type = "hybrid"
  /\ StrContains(StrLower(Val(locIn)), "flexible")

CommaPositions(s) == {i \in 1..Len(s) : SubSeq(s, i, i) = ","}

BeforeFirstComma(s) ==
  IF CommaPositions(s) = {} THEN s
  ELSE SubSeq(s, 1, (CHOOSE i \in CommaPositions(s) : \A j \in CommaPositions(s) : i <= j) - 1)

AfterLastComma(s) ==
  SubSeq(s, (CHOOSE i \in CommaPositions(s) : \A j \in CommaPositions(s) : i >= j) + 1, Len(s))

\* C10: for a non-empty non-remote string, the city is the city alias of the
\* (stripped) text before the first comma, or that text itself; with no comma the
\* country is null, otherwise it is the country alias of the (stripped) text after
\* the last comma, or its title case; middle parts are discarded.
C10_CityCountryParts ==
  /\ (locOut # NoOut /\ locIn \notin {None, Some("")} /\ locOut.location_type # "remote") =>
       LET first == StrStrip(BeforeFirstComma(Val(locIn))) IN
       /\ locOut.city = Some(DictGet(CITY_ALIASES, StrLower(first), first))
       /\ locOut.country = IF CommaPositions(Val(locIn)) = {} THEN None
                           ELSE LET last == StrStrip(AfterLastComma(Val(locIn)))
                                IN Some(DictGet(COUNTRY_MAPPINGS, StrLower(last), StrTitle(last)))
  /\ NormalizeLocation(Some("Bengaluru, India")).city = Some("Bangalore")
  /\ NormalizeLocation(Some("Bengaluru, India")).country = Some("India")
  /\ NormalizeLocation(Some("Bombay, India")).city = Some("Mumbai")
  /\ NormalizeLocation(Some("Gurugram, India")).city = Some("Gurgaon")
  /\ NormalizeLocation(Some("Dubai, UAE")).country = Some("UAE")

C10_Witness ==
  /\ locOut # NoOut /\ locIn # None
  /\ locOut.location_type # "remote"
  /\ Cardinality(CommaPositions(Val(locIn))) >= 2
  /\ locOut.country = Some("India")

(*---------------------- claims on score_location_match -------------------*)

ScoreDone == sOut # NoScore

NormPrefs == [i \in 1..Len(sPrefs) |-> NormalizeLocation(Some(sPrefs[i]))]

SomeCityMatch == \E i \in 1..Len(sPrefs) : CityMatch(sJob, NormPrefs[i])

SomeCountryMatch == \E i \in 1..Len(sPrefs) : CountryMatch(sJob, NormPrefs[i])

\* C3: the location score lies in [0.0, 1.0], and it is exactly 1.0 for a remote
\* job whatever the preferences and flags (remote_only false included).
C3_ScoreBoundsRemoteOne ==
  ScoreDone =>
    /\ FLe(FZero, sOut) /\ FLe(sOut, Dec(10))
    /\ (sJob.location_type = "remote" => sOut = Dec(10))

C3_Witness == ScoreDone /\ sJob.location_type = "remote" /\ ~sRemote /\ sPrefs # <<>>

\* C4: for a non-remote job the score is exactly 0.2 when remote_only is set, and
\* otherwise exactly 0.5 when the preferred-location list is empty.
C4_RemoteOnlyAndNoPrefs ==
  (ScoreDone /\ sJob.location_type # "remote") =>
    /\ (sRemote => sOut = Dec(2))
    /\ (~sRemote /\ sPrefs = <<>> => sOut = Dec(5))

C4_Witness == ScoreDone /\ sJob.location_type # "remote" /\ sRemote /\ sPrefs = <<>>

\* C5: non-remote job, remote_only false, preferences given: 1.0 if some normalized
\* preference has the job's city (case-insensitive), else 0.7 if one has the job's
\* country; otherwise below 0.7 -- the best comparison over all preferences wins.
C5_CityThenCountry ==
  (ScoreDone /\ sJob.location_type # "remote" /\ ~sRemote /\ sPrefs # <<>>) =>
    IF SomeCityMatch THEN sOut = Dec(10)
    ELSE IF SomeCountryMatch THEN sOut = Dec(7)
    ELSE FLt(sOut, Dec(7))

C5_Witness ==
  /\ ScoreDone /\ sJob.location_type # "remote" /\ ~sRemote
  /\ Len(sPrefs) = 2
  /\ CityMatch(sJob, NormPrefs[1]) /\ ~CityMatch(sJob, NormPrefs[2])
  /\ CountryMatch(sJob, NormPrefs[2])

C6Case(raw) ==
  /\ ScoreDone /\ sJob = NormalizeLocation(Some(raw)) /\ sPrefs = <<"Bangalore">>
  /\ ~sReloc /\ ~sIntl /\ ~sRemote

\* C6 (claim as stated): with preferences ["Bangalore"] and all flags false, a job
\* at "Bangalore, India" scores 1.0 and a job at "Delhi, India" scores 0.7.
C6_BangaloreDelhiAsStated ==
  /\ C6Case("Bangalore, India") => sOut = Dec(10)
  /\ C6Case("Delhi, India") => sOut = Dec(7)

\* C6 (amended): the Bangalore job scores 1.0; the Delhi job gets no same-country
\* credit ("Bangalore" normalizes to no country) and scores below 0.7.
C6_BangaloreDelhi ==
  /\ C6Case("Bangalore, India") => sOut = Dec(10)
  /\ C6Case("Delhi, India") => FLt(sOut, Dec(7))

C6_Witness == C6Case("Delhi, India")

\* C7 (claim as stated): non-remote job, remote_only false, preferences given, no
\* city or country match: 0.5 if open to relocation and a preference shares the
\* job's country, else 0.4 if open to international, else 0.1 (never 0.0).
C7_NoMatchFallback ==
  (ScoreDone /\ sJob.location_type # "remote" /\ ~sRemote /\ sPrefs # <<>>
   /\ ~SomeCityMatch /\ ~SomeCountryMatch) =>
    sOut = IF sReloc /\ SomeCountryMatch THEN Dec(5)
           ELSE IF sIntl THEN Dec(4)
           ELSE Dec(1)

(*--------------------------- claims on match_jobs ------------------------*)

InputPos(job) == CHOOSE k \in 1..Len(mJobs) : mJobs[k].id = job.id

AboveThreshold ==
  {k \in 1..Len(mFiltered) :
     FGe(ScoreJob(mFiltered[k], mProfile, sPrefs, sReloc, sIntl, sRemote).total_score, Threshold)}

\* C1: every returned match has total_score >= 0.3, there are at most max_results
\* of them, they are sorted by non-increasing total_score, equal scores keep the
\* input order of their jobs, and they are the top max_results of the
\* above-threshold jobs (for max_results >= 0).
C1_ThresholdSortedStableTop ==
  (mDone /\ mMax >= 0) =>
    /\ \A i \in 1..Len(mOut) : FGe(mOut[i].total_score, Threshold)
    /\ Len(mOut) <= mMax
    /\ \A i, j \in 1..Len(mOut) : i < j => FGe(mOut[i].total_score, mOut[j].total_score)
    /\ \A i, j \in 1..Len(mOut) :
         (i < j /\ mOut[i].total_score = mOut[j].total_score)
           => InputPos(mOut[i].job) < InputPos(mOut[j].job)
    /\ Len(mOut) = Min2(mMax, Cardinality(AboveThreshold))
    /\ \A k \in AboveThreshold :
         (\A i \in 1..Len(mOut) : mOut[i].job.id # mFiltered[k].id)
           => \A i \in 1..Len(mOut) :
                FLe(ScoreJob(mFiltered[k], mProfile, sPrefs, sReloc, sIntl, sRemote).total_score,
                    mOut[i].total_score)

C1_Witness ==
  /\ mDone
  /\ Len(mOut) >= 2
  /\ mOut[1].total_score = mOut[2].total_score
  /\ Len(mOut) < Cardinality(AboveThreshold)

\* C2: with remote_only every returned job is remote; without it the hard filter
\* keeps every job.
C2_RemoteOnlyFilter ==
  mDone =>
    /\ sRemote => \A i \in 1..Len(mOut) : mOut[i].job.location.location_type = "remote"
    /\ ~sRemote => mFiltered = mJobs

C2_Witness ==
  /\ mDone /\ sRemote
  /\ Len(mOut) >= 1
  /\ Len(mFiltered) < Len(mJobs)

(*------------------------ claims on deduplicate_jobs ---------------------*)

FirstIndexOf(q, id) == CHOOSE k \in 1..Len(q) : q[k].id = id /\ \A m \in 1..(k - 1) : q[m].id # id

\* C11: deduplicate_jobs keeps exactly the first job of each id, in input order,
\* and applying it again changes nothing.
C11_DedupFirstOrderIdempotent ==
  /\ dStage >= 1 =>
       LET firsts == {k \in 1..Len(dIn) : \A m \in 1..(k - 1) : dIn[m].id # dIn[k].id}
       IN /\ Len(dOut) = Cardinality(firsts)
          /\ \A i \in 1..Len(dOut) : dOut[i] = dIn[FirstIndexOf(dIn, dOut[i].id)]
          /\ \A i, j \in 1..Len(dOut) :
               i < j => FirstIndexOf(dIn, dOut[i].id) < FirstIndexOf(dIn, dOut[j].id)
  /\ dStage = 2 => dOut2 = dOut

C11_Witness ==
  /\ dStage = 2
  /\ Len(dOut) = 2 /\ Len(dIn) = 4
  /\ \E k \in 2..Len(dIn) : dIn[k].id = dIn[1].id /\ dIn[k].title # dIn[1].title

(*--------------------- claims on normalize_job / job ids -----------------*)

HexChars == {"0", "1", "2", "3", "4", "5", "6", "7", "8", "9", "a", "b", "c", "d", "e", "f"}

RawTriple(j) == <<StrLower(j.raw_data.title), StrLower(j.raw_data.company),
                  StrLower(PyStr(j.raw_data.location_raw))>>

\* C12: every job id is a 16-hex-character function of the lower-cased
\* "title|company|location" string, and after normalize_job + deduplicate_jobs no
\* two jobs share a (title, company, location) triple compared case-insensitively.
C12_IdAndTripleUnique ==
  pDone =>
    /\ \A i \in 1..Len(pOut) :
         /\ pOut[i].id = hashFn[StrLower(pOut[i].raw_data.title \o "|" \o pOut[i].raw_data.company
                                         \o "|" \o PyStr(pOut[i].raw_data.location_raw))]
         /\ Len(pOut[i].id) = 16
         /\ \A k \in 1..16 : SubSeq(pOut[i].id, k, k) \in HexChars
    /\ \A i, j \in 1..Len(pOut) : i # j => RawTriple(pOut[i]) # RawTriple(pOut[j])

C12_Witness ==
  /\ pDone /\ Len(rawJobs) = 2 /\ Len(pOut) = 1
  /\ rawJobs[1].description # None /\ rawJobs[2].description # None
  /\ rawJobs[1].title # rawJobs[2].title

IsSortedStrings(q) == \A i \in 1..(Len(q) - 1) : StrLess(q[i], q[i + 1])

\* C13: normalize_job fails closed: a posting whose processing raises (no
\* description) yields null; otherwise required_skills is the first at most 10
\* extracted skills, preferred_skills is empty, and the description is the first
\* at most 1000 characters of the raw description.
C13_NormalizeJobContract ==
  (pDone /\ Len(pNorm) = 1) =>
    LET r == rawJobs[1]
        n == pNorm[1]
    IN IF r.description = None
       THEN n = NullJob
       ELSE LET skills == ExtractSkills(Val(r.description), pNer[1])
            IN /\ n.ok
               /\ n.required_skills = SubSeq(skills, 1, Min2(MaxRequiredSkills, Len(skills)))
               /\ Len(n.required_skills) <= MaxRequiredSkills
               /\ IsSortedStrings(n.required_skills)
               /\ n.preferred_skills = <<>>
               /\ Len(n.description) <= MaxDescription
               /\ n.description = SubSeq(Val(r.description), 1, Len(n.description))
               /\ Len(n.description) = Min2(MaxDescription, Len(Val(r.description)))

C13_Witness ==
  /\ pDone /\ Len(pNorm) = 1 /\ pNorm[1].ok
  /\ Len(ExtractSkills(Val(rawJobs[1].description), pNer[1])) > MaxRequiredSkills
  /\ Len(pNorm[1].required_skills) = MaxRequiredSkills

\* C14: skill_score is the Jaccard similarity of the lower-cased sets
\* U = skills + tools and J = required_skills, boosted x1.2 and clamped to 1.0 when
\* at least 5 skills are shared; 0 when either side is empty; always in [0, 1].
\* The ratio, the product and the clamp are Python float operations.
C14_JaccardBoost ==
  kOut # NoScore =>
    LET U == LowerSet(kUser \o kTools)
        J == LowerSet(kJob)
        i == Cardinality(U \cap J)
        u == Cardinality(U \cup J)
    IN /\ FLe(FZero, kOut) /\ FLe(kOut, Dec(10))
       /\ (U = {} \/ J = {}) => kOut = FZero
       /\ (U # {} /\ J # {}) =>
            IF i >= 5
            THEN kOut = FMin(Dec(10), FMul(FDivInt(i, u), FDivInt(12, 10)))
            ELSE kOut = FDivInt(i, u)
       /\ (U = {"a", "b", "c", "d", "e", "f"} /\ J = {"a", "b", "c", "d", "e"}) => kOut = Dec(10)

\* the boost below the clamp: 5 shared skills out of 7
C14_Witness ==
  /\ kOut # NoScore
  /\ Cardinality(LowerSet(kUser \o kTools) \cap LowerSet(kJob)) = 5
  /\ Cardinality(LowerSet(kUser \o kTools) \cup LowerSet(kJob)) = 7
  /\ kOut = FMul(FDivInt(5, 7), FDivInt(12, 10))
  /\ FLt(kOut, Dec(10))

UserLevel(sen) ==
  IF sen = "junior" THEN 1 ELSE IF sen = "mid" THEN 2 ELSE IF sen = "senior" THEN 3
  ELSE IF sen = "lead" THEN 4 ELSE IF sen = "principal" THEN 5 ELSE 2

TitleHas(title, w) == StrContains(StrLower(title), w)

\* keyword families checked in order; the first family that occurs decides
JobLevel(title) ==
  IF TitleHas(title, "junior") \/ TitleHas(title, "entry") \/ TitleHas(title, "associate") THEN 1
  ELSE IF TitleHas(title, "senior") \/ TitleHas(title, "sr") THEN 3
  ELSE IF TitleHas(title, "lead") \/ TitleHas(title, "staff") \/ TitleHas(title, "principal") THEN 4
  ELSE 2

\* C15: career_score is 0.7, 0.9, 0.4, 0.6 or 0.2 for a signed level difference
\* (job level - user level) of 0, +1, -1, >= +2, <= -2, with user levels
\* junior..principal = 1..5 (unknown = 2) and job levels from title keywords.
C15_CareerDifference ==
  cOut # NoScore =>
    LET d == JobLevel(cTitle) - UserLevel(cSen)
    IN /\ d = 0 => cOut = Dec(7)
       /\ d = 1 => cOut = Dec(9)
       /\ d = -1 => cOut = Dec(4)
       /\ d >= 2 => cOut = Dec(6)
       /\ d <= -2 => cOut = Dec(2)

C15_Witness ==
  /\ cOut # NoScore
  /\ cSen = "Senior"
  /\ cTitle = "Senior Engineer"
  /\ cOut = Dec(9)

FamilyHits(role, text) ==
  Cardinality({k \in DictGet(ROLE_KEYWORDS, role, {}) : StrContains(StrLower(text), k)})

\* C16: domain_score is 0.5 for a role outside the 7 families, else 1.0, 0.7 or
\* 0.3 when >= 2, 1 or 0 of the family's keywords occur in lower(title + " " +
\* description); the strategy and marketing examples give 1.0 and 0.3.
C16_DomainFit ==
  dmOut # NoScore =>
    /\ dmRole \notin BUSINESS_ROLES => dmOut = Dec(5)
    /\ dmRole \in BUSINESS_ROLES =>
         LET hits == FamilyHits(dmRole, dmTitle \o " " \o dmDesc)
         IN /\ hits >= 2 => dmOut = Dec(10)
            /\ hits = 1 => dmOut = Dec(7)
            /\ hits = 0 => dmOut = Dec(3)
    /\ (dmRole = "strategy" /\ dmTitle = "Strategy Manager") => dmOut = Dec(10)
    /\ (dmRole = "marketing" /\ dmTitle = "Software Engineer") => dmOut = Dec(3)

C16_Witness ==
  /\ dmOut # NoScore
  /\ dmRole = "marketing"
  /\ dmTitle = "Brand Lead"
  /\ dmOut = Dec(7)

SjDone == sjOut # NoJobMatch

SjDomain == DomainFit(sjProfile.primary_role, sjJob.title, sjJob.description)

\* C17: total_score = 0.3 loc + 0.4 skill + 0.2 career + 0.1 domain for the seven
\* business roles and 0.5 loc + 0.4 skill + 0.1 career otherwise, so for other
\* roles domain_score has no weight in the total (float sums, left to right).
C17_WeightedTotal ==
  SjDone =>
    /\ sjProfile.primary_role \in {"strategy", "consulting", "operations", "marketing", "sales", "finance", "hr"} =>
         sjOut.total_score =
           FAdd(FAdd(FAdd(FMul(Dec(3), sjOut.location_score), FMul(Dec(4), sjOut.skill_score)),
                     FMul(Dec(2), sjOut.career_score)), FMul(Dec(1), SjDomain))
    /\ sjProfile.primary_role \notin {"strategy", "consulting", "operations", "marketing", "sales", "finance", "hr"} =>
         sjOut.total_score =
           FAdd(FAdd(FMul(Dec(5), sjOut.location_score), FMul(Dec(4), sjOut.skill_score)),
                FMul(Dec(1), sjOut.career_score))

C17_Witness ==
  /\ SjDone
  /\ sjProfile.primary_role = "Operations"
  /\ sjJob.title = "Operations Manager"
  /\ sjOut.location_score = Dec(10) /\ FGt(sjOut.skill_score, FZero)

C18Case ==
  /\ SjDone
  /\ sjProfile = [primary_role |-> "operations", seniority |-> "mid",
                  skills |-> <<"excel", "process improvement">>, tools |-> <<>>]
  /\ sjJob.title = "Operations Manager" /\ sjJob.required_skills = <<"excel", "six sigma">>
  /\ sjJob.location = [city |-> Some("Mumbai"), country |-> Some("India"), location_type |-> "onsite", raw |-> "Mumbai, India"]
  /\ sPrefs = <<"Mumbai">> /\ ~sReloc /\ ~sIntl /\ ~sRemote

\* C18: for the operations/mid profile with skills excel and process improvement,
\* the onsite Mumbai "Operations Manager" job requiring excel and six sigma, and
\* preferred location Mumbai, _score_job gives location 1.0, skill 1/3, career
\* 0.7 and a business-weight total of at least 0.59, whatever the description.
C18_OperationsScenario ==
  C18Case =>
    /\ sjOut.location_score = Dec(10)
    /\ sjOut.skill_score = FDivInt(1, 3)
    /\ sjOut.career_score = Dec(7)
    /\ sjOut.total_score =
         FAdd(FAdd(FAdd(FMul(Dec(3), sjOut.location_score), FMul(Dec(4), sjOut.skill_score)),
                   FMul(Dec(2), sjOut.career_score)), FMul(Dec(1), SjDomain))
    /\ FGe(sjOut.total_score, FDivInt(59, 100))

C18_Witness == C18Case /\ sjJob.description = ""

\* C19: scoring is per job: whenever two match_jobs calls (same profile and
\* preferences, any two job lists) both return a job, they return the same JobMatch
\* for it (no cross-job state); two calls on the same job list return the same result.
C19_PerJobIndependent ==
  \A a, b \in 1..Len(mRuns) :
    /\ \A i \in 1..Len(mRuns[a].out), k \in 1..Len(mRuns[b].out) :
         mRuns[a].out[i].job = mRuns[b].out[k].job => mRuns[a].out[i] = mRuns[b].out[k]
    /\ mRuns[a].jobs = mRuns[b].jobs => mRuns[a].out = mRuns[b].out

\* a job returned by two calls on different lists, alongside a different other job
C19_Witness ==
  /\ Len(mRuns) = 2
  /\ mRuns[1].jobs # mRuns[2].jobs
  /\ Len(mRuns[1].out) >= 2 /\ Len(mRuns[2].out) >= 2
  /\ \E i, k \in 1..Len(mRuns[1].out) : \E i2, k2 \in 1..Len(mRuns[2].out) :
       /\ i # k /\ i2 # k2
       /\ mRuns[1].out[i].job = mRuns[2].out[i2].job
       /\ mRuns[1].out[k].job # mRuns[2].out[k2].job

(*------------------------- claims on generate_explanation ----------------*)

SkillOverlap == LowerSet(eProfile.skills \o eProfile.tools) \cap LowerSet(eMatch.job.required_skills)

\* C20: generate_explanation returns null whenever the case-insensitive overlap of
\* skills + tools with the job's required skills is empty, whatever the scores;
\* a non-null result always has a why_match reason and a non-empty skill overlap.
C20_ExplanationVeto ==
  eDone =>
    /\ SkillOverlap = {} => eOut.is_null
    /\ ~eOut.is_null => (eOut.why_match # "" /\ eOut.skill_matches # <<>> /\ SkillOverlap # {})

C20_Witness ==
  /\ eDone /\ SkillOverlap = {} /\ eOut.is_null
  /\ eMatch.location_score = Dec(10) /\ FGe(eMatch.career_score, Dec(6))

RECURSIVE IsSubseqOf(_, _)
\* q keeps a subset of the entries of r, in r's order
IsSubseqOf(q, r) ==
  IF q = <<>> THEN TRUE
  ELSE IF r = <<>> THEN FALSE
  ELSE IF q[1] = r[1] THEN IsSubseqOf(Tail(q), Tail(r)) ELSE IsSubseqOf(q, Tail(r))

\* C21 (as stated): in a non-null explanation skill_matches lists the shared skills
\* in user order and casing, no skill twice, at most 8; skill_gaps lists only
\* required skills the user lacks, at most 5.
C21_MatchesGapsAsStated ==
  (eDone /\ ~eOut.is_null) =>
    LET user == eProfile.skills \o eProfile.tools
        m == eOut.skill_matches
        g == eOut.skill_gaps
    IN /\ IsSubseqOf(m, user)
       /\ \A i \in 1..Len(m) : StrLower(m[i]) \in SkillOverlap
       /\ \A i, j \in 1..Len(m) : i # j => StrLower(m[i]) # StrLower(m[j])
       /\ Len(m) <= 8
       /\ \A i \in 1..Len(g) : StrLower(g[i]) \in LowerSet(eMatch.job.required_skills) \ LowerSet(user)
       /\ Len(g) <= 5

WhyMatchNow == GenerateWhyMatch(eMatch, eProfile)

ClusterHit ==
  \E i \in 1..Len(eProfile.skill_clusters) :
    StrContains(StrLower(eMatch.job.title), eProfile.skill_clusters[i])
    \/ StrContains(StrLower(eMatch.job.description), eProfile.skill_clusters[i])

\* C22: why_match has the skill sentence iff skill_score >= 0.4 (strong iff >= 0.6),
\* the career sentence iff career_score >= 0.6 (progression iff >= 0.8), the
\* location sentence iff location_score >= 0.7 (perfect iff >= 0.9), the cluster
\* sentence iff a skill cluster occurs in the lower-cased title or description,
\* and the fallback iff none applies; so it is never empty and the explanation is
\* non-null exactly when the skill overlap is non-empty.
C22_WhyMatchSentences ==
  eDone =>
    LET w == WhyMatchNow
        sk == eMatch.skill_score
        ca == eMatch.career_score
        lo == eMatch.location_score
    IN /\ StrContains(w, "Strong alignment with your") <=> FGe(sk, Dec(6))
       /\ StrContains(w, "Good fit for your") <=> (FGe(sk, Dec(4)) /\ FLt(sk, Dec(6)))
       /\ StrContains(w, "Excellent career progression opportunity") <=> FGe(ca, Dec(8))
       /\ StrContains(w, "Aligns with your career level") <=> (FGe(ca, Dec(6)) /\ FLt(ca, Dec(8)))
       /\ StrContains(w, "Perfect location match") <=> FGe(lo, Dec(9))
       /\ StrContains(w, "Good location fit") <=> (FGe(lo, Dec(7)) /\ FLt(lo, Dec(9)))
       /\ StrContains(w, "Matches your expertise in") <=> ClusterHit
       /\ StrContains(w, "Potential fit based on your background")
            <=> (FLt(sk, Dec(4)) /\ FLt(ca, Dec(6)) /\ FLt(lo, Dec(7)) /\ ~ClusterHit)
       /\ w # ""
       /\ (~eOut.is_null <=> SkillOverlap # {})
       /\ ~eOut.is_null => eOut.why_match = w

C22_Witness ==
  /\ eDone /\ ~eOut.is_null
  /\ StrContains(eOut.why_match, "Potential fit based on your background")

\* C23: location_reasoning is one of five templates, chosen in order: remote job,
\* location_score >= 0.9 (preferred area), >= 0.7 (same country), >= 0.5
\* (relocation), otherwise the plain location.
C23_LocationReasoning ==
  eDone =>
    LET loc == eMatch.job.location
        lo == eMatch.location_score
        r == GenerateLocationReasoning(eMatch, eMatch.job)
    IN /\ ~eOut.is_null => eOut.location_reasoning = r
       /\ r = IF loc.location_type = "remote" THEN "Remote position - work from anywhere"
              ELSE IF FGe(lo, Dec(9)) THEN "Located in your preferred area: " \o loc.raw
              ELSE IF FGe(lo, Dec(7)) THEN "Same country as your preference: " \o PyStr(loc.country)
              ELSE IF FGe(lo, Dec(5)) THEN "Relocation opportunity to " \o loc.raw
              ELSE "Location: " \o loc.raw

C23_Witness ==
  /\ eDone /\ ~eOut.is_null
  /\ eMatch.job.location.location_type # "remote"
  /\ StrContains(eOut.location_reasoning, "Relocation opportunity to")

(*--------------------- claims on extract_experience_years ----------------*)

\* C24: extract_experience_years returns the largest N over all matches of
\* '<N>[+] year(s) [of] experience' in the lower-cased text, and 1 when nothing matches.
C24_LargestYearsOrOne ==
  xDone =>
    LET c == StrictMatches(xText)
    IN IF c = {} THEN xNum = 1 ELSE xNum \in c /\ \A n \in c : n <= xNum

\* two different matches, the larger one returned
C24_Witness == xDone /\ Cardinality(StrictMatches(xText)) >= 2 /\ xNum = 7

\* a four-digit 19xx/20xx year token starts at index i (\b(19\d{2}|20\d{2})\b)
YearTokenAt(t, i) ==
  /\ CharAt(t, i - 1) \notin WordChars /\ CharAt(t, i + 4) \notin WordChars
  /\ CharAt(t, i) \in DigitChars /\ RunEnd(t, i) >= i + 3
  /\ SubSeq(t, i, i + 1) \in {"19", "20"}

\* positions of date ranges 'YYYY - YYYY' in the text
DateRangeStarts(t) ==
  {i \in 1..Len(t) : YearTokenAt(t, i) /\ AtStr(t, i + 4, " - ") /\ YearTokenAt(t, i + 7)}

YearTokens(t) == {DigitsValue(SubSeq(t, i, i + 3)) : i \in {k \in 1..Len(t) : YearTokenAt(t, k)}}

\* the text has no strict experience phrase, at least two date ranges, spanning two years or more
C25Case ==
  /\ StrictMatches(xText) = {}
  /\ Cardinality(DateRangeStarts(xText)) >= 2
  /\ \E a, b \in YearTokens(xText) : b - a >= 2

\* C25: when the only experience evidence is two or more date ranges spanning at
\* least two years, extract_experience_years returns at least 2.
C25_DatesGiveAtLeastTwo == xDone /\ C25Case => xNum >= 2

(*------------------------ claims on extract_role_family ------------------*)

\* number of keywords of family k occurring in the text plus titles
FamilyKeywordHits(k) ==
  Cardinality({kw \in Range(ROLE_FAMILIES[k][2]) : StrContains(RoleCombinedText(xText, xTitles), kw)})

\* C27: extract_role_family returns "general" when no family has a keyword hit in the
\* text plus job titles, otherwise a family with the most hits, the first in table order on ties.
C27_FirstMaxFamily ==
  xDone =>
    IF \A k \in 1..Len(ROLE_FAMILIES) : FamilyKeywordHits(k) = 0 THEN xOut = "general"
    ELSE \E k \in 1..Len(ROLE_FAMILIES) :
           /\ xOut = ROLE_FAMILIES[k][1]
           /\ \A j \in 1..Len(ROLE_FAMILIES) : FamilyKeywordHits(j) <= FamilyKeywordHits(k)
           /\ \A j \in 1..(k - 1) : FamilyKeywordHits(j) < FamilyKeywordHits(k)

\* a tie between two families with hits, broken in favour of the earlier one
C27_Witness ==
  /\ xDone /\ xOut = "data scientist"
  /\ FamilyKeywordHits(2) = FamilyKeywordHits(7) /\ FamilyKeywordHits(2) > 0

(*------------------------- claims on extract_seniority -------------------*)

\* keywords of the table found in the lower-cased text
FoundKeywords(t) ==
  {kw \in UNION {Range(SENIORITY_KEYWORDS[k][2]) : k \in 1..Len(SENIORITY_KEYWORDS)} : StrContains(StrLower(t), kw)}

\* levels whose synonym list contains every keyword found in the text
NamedLevels(t) ==
  {SENIORITY_KEYWORDS[k][1] : k \in {j \in 1..Len(SENIORITY_KEYWORDS) : FoundKeywords(t) \subseteq Range(SENIORITY_KEYWORDS[j][2])}}

\* C26: when the seniority keywords in the text are all synonyms of one level,
\* extract_seniority returns that level whatever the years; with no keyword it returns
\* junior for years < 2, mid for < 5, senior for < 8, else lead.
C26_KeywordThenYears ==
  xDone /\ xOut /= "" =>
    IF FoundKeywords(xText) = {} THEN xOut = SeniorityFromYears(xYears)
    ELSE NamedLevels(xText) /= {} => xOut \in NamedLevels(xText)

(*--------------------------- claims on extract_skills --------------------*)

\* w occurs in t with no word character immediately before or after it
StandaloneIn(t, w) ==
  \E i \in 0..(Len(t) - Len(w)) :
    /\ SubSeq(t, i + 1, i + Len(w)) = w
    /\ (i = 0 \/ SubSeq(t, i, i) \notin WordChars)
    /\ (i + Len(w) = Len(t) \/ SubSeq(t, i + Len(w) + 1, i + Len(w) + 1) \notin WordChars)

\* C28: extract_skills returns every dictionary skill that occurs in the lower-cased
\* text as a standalone word, and nothing outside the dictionary, with or without NER.
C28_StandaloneSkillsFound ==
  xDone =>
    /\ \A sk \in ALL_SKILLS : StandaloneIn(StrLower(xText), sk) => sk \in Range(xSkills)
    /\ Range(xSkills) \subseteq ALL_SKILLS

(*------------------------- claims on the session API ---------------------*)

\* session s was stored by an upload answered before request i (answered 200, or 500
\* when the cleanup raised after storing)
KnownBefore(s, i) == \E j \in 1..(i - 1) : apiLog[j].kind = "upload" /\ apiLog[j].sid = s

\* profile stored by the upload of session s
UploadedProfile(s) ==
  LET J == {j \in 1..Len(apiLog) : apiLog[j].kind = "upload" /\ apiLog[j].sid = s}
  IN apiLog[CHOOSE j \in J : TRUE].profile

\* preferences of the latest successful set-preferences on s answered before the
\* (i)-th answer, default if none
LatestPrefs(s, i) ==
  LET J == {j \in 1..(i - 1) : apiLog[j].kind = "set" /\ apiLog[j].code = 200 /\ apiLog[j].sid = s}
  IN IF J = {} THEN DefaultPrefs ELSE Head(apiLog[CHOOSE j \in J : \A k \in J : k <= j].prefs)

\* a request is later than the submissions answered before it read the sessions dict
C29Log ==
  \A i \in 1..Len(apiLog) :
    /\ apiLog[i].kind \in {"set", "rec"} =>
         (apiLog[i].code = 404 <=> ~KnownBefore(apiLog[i].sid, apiLog[i].start + 1))
    /\ apiLog[i].kind = "rec" /\ apiLog[i].code = 200 =>
         /\ apiLog[i].prefs = <<LatestPrefs(apiLog[i].sid, apiLog[i].start + 1)>>
         /\ apiLog[i].profile = UploadedProfile(apiLog[i].sid)

C29Step ==
  /\ Len(apiLog') > Len(apiLog) /\ apiLog'[Len(apiLog')].code = 404 => apiSessions' = apiSessions
  /\ \A s \in DOMAIN apiSessions : s \in DOMAIN apiSessions' /\ apiSessions'[s].profile = apiSessions[s].profile

\* C29: set-preferences on an unknown session answers 404 and changes no session; on a
\* known one it replaces the preferences, so a later recommendations request (one that
\* reads the session after the submission was answered) uses the latest submitted
\* preferences (the defaults if none), and a session's profile never changes after upload.
C29_PreferencesReplacedInPlace ==
  /\ [](C29Log /\ \A s \in DOMAIN apiSessions : apiSessions[s].profile = UploadedProfile(s))
  /\ [][C29Step]_vars

\* recommendations requested after two different submissions on the same session use the second
C29_Witness ==
  \E i \in 1..Len(apiLog) :
    /\ apiLog[i].kind = "rec" /\ apiLog[i].code = 200
    /\ \E j, k \in 1..apiLog[i].start :
         /\ j < k
         /\ apiLog[j].kind = "set" /\ apiLog[k].kind = "set"
         /\ apiLog[j].code = 200 /\ apiLog[k].code = 200
         /\ apiLog[j].sid = apiLog[i].sid /\ apiLog[k].sid = apiLog[i].sid
         /\ apiLog[j].prefs /= apiLog[k].prefs
         /\ apiLog[i].prefs = apiLog[k].prefs

(*--------------------------- claims on _score_job ranges -----------------*)

\* C30: every JobMatch from _score_job has location_score, skill_score and
\* career_score in [0, 1] and total_score in [0, 1], under the business and the
\* tech weights.
InUnitRange(x) == FLe(FZero, x) /\ FLe(x, Dec(10))

C30_ScoresInUnitRange ==
  /\ InUnitRange(eMatch.location_score)
  /\ InUnitRange(eMatch.skill_score)
  /\ InUnitRange(eMatch.career_score)
  /\ InUnitRange(eMatch.total_score)

\* a tech-weight match whose boosted Jaccard is clamped to 1.0, next to business-weight matches
C30_Witness ==
  /\ eMatch.job.title = "Staff Platform Engineer"
  /\ eProfile.primary_role \notin BUSINESS_ROLES
  /\ eMatch.skill_score = Dec(10)
  /\ FGt(eMatch.total_score, FZero)

====
